---- MODULE Spec2Model ----
(***************************************************************************)
(* A model of the AetherScript language service front end:                 *)
(*   - the lexer       (server/aetherscript/parser/lexer.py)               *)
(*   - the parser      (server/aetherscript/parser/parser.py)              *)
(*   - the symbol table (server/aetherscript/analyzer/symbols.py)          *)
(*   - the type checker (server/aetherscript/analyzer/type_checker.py)     *)
(*   - the semantic analyzer                                               *)
(*                 (server/aetherscript/analyzer/semantic_analyzer.py)     *)
(* Characters are one-character strings, source texts and token values are *)
(* sequences of characters.  Python's None is the value None.              *)
(***************************************************************************)
EXTENDS Integers, Sequences, FiniteSets, TLC

VARIABLES
    lexer,      \* the Lexer object: source, position, line, column, current_char
    tokens,     \* the local list `tokens` of Lexer.tokenize
    lexpc,      \* where tokenize is: "scan", "done", "raised"
    parser,     \* the Parser object: source, tokens, current, errors
    statements, \* the local list `statements` of Parser.parse
    parpc,      \* where parse is: "loop", "done"
    scopes,     \* the SymbolTable objects; a scope is its index, 0 is None
    symcall,    \* the latest call on a SymbolTable: arguments and result
    type_checker,       \* the TypeChecker of the document
    semantic_analyzer,  \* the SemanticAnalyzer of the document
    frames,     \* the visits of compound statements that have not returned yet
    walk,       \* where the walk of a hand-built program is, its last node and
                \* the type the last visit of an expression returned
    server,     \* the AetherScriptLanguageServer object: its four dicts
    client      \* the editor's side: the text it last sent for each URI, its
                \* latest call, what the call returned, the diagnostics it got

lexVars == <<lexer, tokens, lexpc>>

parVars == <<parser, statements, parpc>>

symVars == <<scopes, symcall>>

docVars == <<type_checker, semantic_analyzer>>

walkVars == <<frames, walk>>

srvVars == <<server, client>>

vars == <<lexer, tokens, lexpc, parser, statements, parpc, scopes, symcall,
          type_checker, semantic_analyzer, frames, walk, server, client>>

\* what the actions of one component leave alone
notLexVars == <<parser, statements, parpc, scopes, symcall,
                type_checker, semantic_analyzer, frames, walk, server, client>>

notParVars == <<lexer, tokens, lexpc, scopes, symcall,
                type_checker, semantic_analyzer, frames, walk, server, client>>

notSymVars == <<lexer, tokens, lexpc, parser, statements, parpc,
                type_checker, semantic_analyzer, frames, walk, server, client>>

None == "NONE"

(***************************************************************************)
(* Bounds of the model.                                                    *)
(***************************************************************************)
MaxLen == 4          \* longest source drawn from the whole alphabet
MaxBody == 3         \* longest body of a block comment in the comment family
MaxWords == 4        \* most lexemes in a source handed to the parser
MaxScopes == 3       \* most SymbolTable objects alive
MaxStatements == 3   \* most statements of a hand-built program
MaxDepth == 2        \* deepest nesting of compound statements in it
MaxLine == 2         \* largest line index of a cursor position
MaxCharacter == 3    \* largest character index of a cursor position

(***************************************************************************)
(* Character classes (str.isspace, str.isalpha, str.isdigit, str.isalnum), *)
(* restricted to ASCII.                                                    *)
(***************************************************************************)
Letters ==
    {"a","b","c","d","e","f","g","h","i","j","k","l","m","n","o","p","q","r",
     "s","t","u","v","w","x","y","z",
     "A","B","C","D","E","F","G","H","I","J","K","L","M","N","O","P","Q","R",
     "S","T","U","V","W","X","Y","Z"}

Digits == {"0","1","2","3","4","5","6","7","8","9"}

DigitChars == <<"0","1","2","3","4","5","6","7","8","9">>

IsSpace(c) == c \in {" ", "\n", "\t", "\r"}

IsAlpha(c) == c \in Letters

IsDigit(c) == c \in Digits

IsAlnum(c) == IsAlpha(c) \/ IsDigit(c)

Token(type, value, line, column) ==
    [type |-> type, value |-> value, line |-> line, column |-> column]

(***************************************************************************)
(* Lexer.__init__                                                          *)
(***************************************************************************)
NewLexer(src) ==
    [source |-> src, position |-> 0, line |-> 1, column |-> 1,
     current_char |-> IF Len(src) > 0 THEN src[1] ELSE None]

Keywords(result) ==
    CASE result = <<"i","f">> -> "IF"
      [] result = <<"e","l","s","e">> -> "ELSE"
      [] result = <<"e","l","i","f">> -> "ELIF"
      [] result = <<"w","h","i","l","e">> -> "WHILE"
      [] result = <<"f","o","r">> -> "FOR"
      [] result = <<"r","e","t","u","r","n">> -> "RETURN"
      [] result = <<"b","r","e","a","k">> -> "BREAK"
      [] result = <<"c","o","n","t","i","n","u","e">> -> "CONTINUE"
      [] result = <<"f","u","n","c","t","i","o","n">> -> "FUNCTION"
      [] result = <<"s","p","e","l","l">> -> "SPELL"
      [] result = <<"r","i","t","u","a","l">> -> "RITUAL"
      [] result = <<"c","o","n","j","u","r","e">> -> "CONJURE"
      [] result = <<"e","n","t","i","t","y">> -> "ENTITY"
      [] result = <<"r","e","a","l","m">> -> "REALM"
      [] result = <<"d","i","m","e","n","s","i","o","n">> -> "DIMENSION"
      [] result = <<"V","o","i","d">> -> "VOID"
      [] result = <<"I","n","t">> -> "INT"
      [] result = <<"F","l","o","a","t">> -> "FLOAT_TYPE"
      [] result = <<"S","t","r","i","n","g">> -> "STRING_TYPE"
      [] result = <<"B","o","o","l","e","a","n">> -> "BOOLEAN"
      [] result = <<"A","r","r","a","y">> -> "ARRAY"
      [] result = <<"M","a","p">> -> "MAP"
      [] result = <<"E","l","e","m","e","n","t">> -> "ELEMENT"
      [] result = <<"E","n","e","r","g","y">> -> "ENERGY"
      [] result = <<"S","p","i","r","i","t">> -> "SPIRIT"
      [] result = <<"M","a","t","t","e","r">> -> "MATTER"
      [] OTHER -> "IDENTIFIER"

(***************************************************************************)
(* Lexer.advance: position += 1; a consumed newline starts a new line.     *)
(***************************************************************************)
\* a plausible bug: a consumed newline is counted as any other character
AdvanceNoNewline(lx) ==
    [lx EXCEPT
        !.position = @ + 1,
        !.column = @ + 1,
        !.current_char = IF lx.position + 1 < Len(lx.source)
                         THEN lx.source[lx.position + 2]
                         ELSE None]

Advance(lx) ==
    [lx EXCEPT
        !.position = @ + 1,
        !.line = IF lx.current_char = "\n" THEN @ + 1 ELSE @,
        !.column = IF lx.current_char = "\n" THEN 1 ELSE @ + 1,
        !.current_char = IF lx.position + 1 < Len(lx.source)
                         THEN lx.source[lx.position + 2]
                         ELSE None]

(***************************************************************************)
(* Lexer.peek                                                              *)
(***************************************************************************)
Peek(lx) ==
    IF lx.position + 1 < Len(lx.source) THEN lx.source[lx.position + 2] ELSE None

(***************************************************************************)
(* Lexer.skip_whitespace                                                   *)
(***************************************************************************)
RECURSIVE SkipWhitespace(_)
SkipWhitespace(lx) ==
    IF lx.current_char # None /\ IsSpace(lx.current_char)
    THEN SkipWhitespace(Advance(lx))
    ELSE lx

RECURSIVE SkipLineComment(_)
SkipLineComment(lx) ==
    IF lx.current_char # None /\ lx.current_char # "\n"
    THEN SkipLineComment(Advance(lx))
    ELSE lx

RECURSIVE SkipBlockComment(_)
SkipBlockComment(lx) ==
    IF lx.current_char = None THEN lx
    ELSE IF lx.current_char = "*" /\ Peek(lx) = "/"
         THEN Advance(Advance(lx))
         ELSE SkipBlockComment(Advance(lx))

(***************************************************************************)
(* Lexer.skip_comment                                                      *)
(***************************************************************************)
SkipComment(lx) ==
    IF lx.current_char = "/" /\ Peek(lx) = "/"
    THEN SkipLineComment(lx)
    ELSE IF lx.current_char = "/" /\ Peek(lx) = "*"
         THEN SkipBlockComment(Advance(Advance(lx)))
         ELSE lx

(***************************************************************************)
(* Lexer.identifier.  The scanning operators return the lexer after the    *)
(* scan, the token, and whether the scan raised.                           *)
(***************************************************************************)
RECURSIVE IdentifierLoop(_, _)
IdentifierLoop(lx, result) ==
    IF lx.current_char # None /\ (IsAlnum(lx.current_char) \/ lx.current_char = "_")
    THEN IdentifierLoop(Advance(lx), Append(result, lx.current_char))
    ELSE [lx |-> lx, result |-> result]

\* a plausible bug: the token takes the position after the scan
IdentifierPositionAfter(lx) ==
    LET r == IdentifierLoop(lx, <<>>)
    IN  [lx |-> r.lx,
         tok |-> Token(Keywords(r.result), r.result, r.lx.line, r.lx.column),
         raised |-> FALSE]

Identifier(lx) ==
    LET r == IdentifierLoop(lx, <<>>)
    IN  [lx |-> r.lx,
         tok |-> Token(Keywords(r.result), r.result, lx.line, lx.column),
         raised |-> FALSE]

(***************************************************************************)
(* Lexer.number                                                            *)
(***************************************************************************)
RECURSIVE NumberLoop(_, _, _)
NumberLoop(lx, result, is_float) ==
    IF lx.current_char # None /\ (IsDigit(lx.current_char) \/ lx.current_char = ".")
    THEN IF lx.current_char = "." /\ is_float
         THEN [lx |-> lx, result |-> result, is_float |-> is_float]
         ELSE NumberLoop(Advance(lx), Append(result, lx.current_char),
                         is_float \/ lx.current_char = ".")
    ELSE [lx |-> lx, result |-> result, is_float |-> is_float]

NumberResult(result) ==
    IF Len(result) > 0 /\ result[Len(result)] = "."
    THEN Append(result, "0")
    ELSE result

Number(lx) ==
    LET r == NumberLoop(lx, <<>>, FALSE)
    IN  [lx |-> r.lx,
         tok |-> Token(IF r.is_float THEN "FLOAT" ELSE "INTEGER",
                       NumberResult(r.result), lx.line, lx.column),
         raised |-> FALSE]

(***************************************************************************)
(* Lexer.string                                                            *)
(***************************************************************************)
EscapeMap(c) ==
    CASE c = "n" -> "\n"
      [] c = "t" -> "\t"
      [] c = "r" -> "\r"
      [] OTHER -> c

\* a plausible bug: the backslash is not checked to have a character after it
IsEscapeNoPeek(lx) == lx.current_char = "\\"

IsEscape(lx) == lx.current_char = "\\" /\ Peek(lx) # None

RECURSIVE StringLoop(_, _, _)
StringLoop(lx, quote, result) ==
    IF lx.current_char # None /\ lx.current_char # quote
    THEN IF IsEscape(lx)
         THEN LET l2 == Advance(lx)
              IN  IF l2.current_char = None
                  THEN [lx |-> l2, result |-> result, raised |-> TRUE]
                  ELSE StringLoop(Advance(l2), quote,
                                  Append(result, EscapeMap(l2.current_char)))
         ELSE StringLoop(Advance(lx), quote, Append(result, lx.current_char))
    ELSE [lx |-> lx, result |-> result, raised |-> FALSE]

\* a plausible bug: end of input is taken for the closing quote
StringTokenNoError(lx, result, line, column) ==
    [lx |-> IF lx.current_char = None THEN lx ELSE Advance(lx),
     tok |-> Token("STRING", result, line, column)]

StringToken(lx, result, line, column) ==
    IF lx.current_char = None
    THEN [lx |-> lx, tok |-> Token("ERROR", result, line, column)]
    ELSE [lx |-> Advance(lx), tok |-> Token("STRING", result, line, column)]

String(lx) ==
    LET r == StringLoop(Advance(lx), lx.current_char, <<>>)
        t == StringToken(r.lx, r.result, lx.line, lx.column)
    IN  [lx |-> t.lx, tok |-> t.tok, raised |-> r.raised]

(***************************************************************************)
(* Lexer.tokenize: the operator and delimiter arms of the loop body.       *)
(***************************************************************************)
SingleCharType(c) ==
    CASE c = "+" -> "PLUS"
      [] c = "-" -> "MINUS"
      [] c = "*" -> "MULTIPLY"
      [] c = "/" -> "DIVIDE"
      [] c = "%" -> "MODULO"
      [] c = "(" -> "LPAREN"
      [] c = ")" -> "RPAREN"
      [] c = "{" -> "LBRACE"
      [] c = "}" -> "RBRACE"
      [] c = "[" -> "LBRACKET"
      [] c = "]" -> "RBRACKET"
      [] c = "," -> "COMMA"
      [] c = "." -> "DOT"
      [] c = ";" -> "SEMICOLON"
      [] c = ":" -> "COLON"
      [] OTHER -> "ERROR"

WithEqualsType(c) ==
    CASE c = "=" -> "EQUALS"
      [] c = "!" -> "NOT_EQUALS"
      [] c = "<" -> "LESS_EQUAL"
      [] c = ">" -> "GREATER_EQUAL"

WithoutEqualsType(c) ==
    CASE c = "=" -> "ASSIGN"
      [] c = "!" -> "NOT"
      [] c = "<" -> "LESS_THAN"
      [] c = ">" -> "GREATER_THAN"

IsComparisonStart(c) == c \in {"=", "!", "<", ">"}

IsDoubled(lx) ==
    lx.current_char \in {"&", "|"} /\ Peek(lx) = lx.current_char

\* a plausible bug: a two-character operator consumes one character only
TwoCharOperatorOneAdvance(lx) ==
    LET c == lx.current_char
        two == (IsComparisonStart(c) /\ Peek(lx) = "=") \/ ~IsComparisonStart(c)
    IN  [lx |-> Advance(lx),
         tok |-> Token(IF ~IsComparisonStart(c)
                       THEN (IF c = "&" THEN "AND" ELSE "OR")
                       ELSE IF two THEN WithEqualsType(c) ELSE WithoutEqualsType(c),
                       IF two THEN <<c, IF IsComparisonStart(c) THEN "=" ELSE c>>
                       ELSE <<c>>,
                       lx.line, lx.column),
         raised |-> FALSE]

\* the arms for = ! < > (with or without a following =) and for && and ||
TwoCharOperator(lx) ==
    LET c == lx.current_char
    IN  IF IsComparisonStart(c)
        THEN IF Peek(lx) = "="
             THEN [lx |-> Advance(Advance(lx)),
                   tok |-> Token(WithEqualsType(c), <<c, "=">>, lx.line, lx.column),
                   raised |-> FALSE]
             ELSE [lx |-> Advance(lx),
                   tok |-> Token(WithoutEqualsType(c), <<c>>, lx.line, lx.column),
                   raised |-> FALSE]
        ELSE [lx |-> Advance(Advance(lx)),
              tok |-> Token(IF c = "&" THEN "AND" ELSE "OR", <<c, c>>,
                            lx.line, lx.column),
              raised |-> FALSE]

\* the one-character arms, the final else (unrecognized character) included
SingleCharOperator(lx) ==
    [lx |-> Advance(lx),
     tok |-> Token(SingleCharType(lx.current_char), <<lx.current_char>>,
                   lx.line, lx.column),
     raised |-> FALSE]

(***************************************************************************)
(* Which arm of the loop body of Lexer.tokenize is taken.                  *)
(***************************************************************************)
Arm(lx) ==
    LET c == lx.current_char
    IN  CASE c = None -> "eof"
          [] c # None /\ IsSpace(c) -> "space"
          [] c = "/" /\ Peek(lx) \in {"/", "*"} -> "comment"
          [] IsAlpha(c) \/ c = "_" -> "identifier"
          [] IsDigit(c) -> "number"
          [] c \in {"\"", "'"} -> "string"
          [] IsComparisonStart(c) \/ IsDoubled(lx) -> "twochar"
          [] OTHER -> IF SingleCharType(c) = "ERROR" THEN "unrecognized" ELSE "single"

EOFToken(lx) == Token("EOF", <<>>, lx.line, lx.column)

\* one iteration of the while loop of tokenize, for the token-producing arms
ScanToken(lx) ==
    CASE Arm(lx) = "identifier" -> Identifier(lx)
      [] Arm(lx) = "number" -> Number(lx)
      [] Arm(lx) = "string" -> String(lx)
      [] Arm(lx) = "twochar" -> TwoCharOperator(lx)
      [] OTHER -> SingleCharOperator(lx)

(***************************************************************************)
(* Lexer.tokenize run to completion (as Parser.__init__ calls it).         *)
(***************************************************************************)
RECURSIVE TokenizeLoop(_, _)
TokenizeLoop(lx, toks) ==
    CASE Arm(lx) = "eof" -> [tokens |-> Append(toks, EOFToken(lx)), raised |-> FALSE]
      [] Arm(lx) = "space" -> TokenizeLoop(SkipWhitespace(lx), toks)
      [] Arm(lx) = "comment" -> TokenizeLoop(SkipComment(lx), toks)
      [] OTHER ->
            LET r == ScanToken(lx)
            IN  IF r.raised
                THEN [tokens |-> toks, raised |-> TRUE]
                ELSE TokenizeLoop(r.lx, Append(toks, r.tok))

Tokenize(src) == TokenizeLoop(NewLexer(src), <<>>)

(***************************************************************************)
(* The sources the lexer is run on: every text over Alphabet of at most    *)
(* MaxLen characters, a family of block comments with a token before and   *)
(* after, and the examples of the specification.                           *)
(***************************************************************************)
Alphabet == {"n", "1", ".", "\"", "'", "\\", " ", "\n", "/", "*", "=", "&"}

SeqsUpTo(S, n) == UNION {[1..k -> S] : k \in 0..n}

CommentSources ==
    {pre \o <<"/", "*">> \o body \o <<"*", "/">> \o post :
        pre \in {<<>>, <<"n">>, <<"\n">>},
        body \in SeqsUpTo({"\n", "n", "*"}, MaxBody),
        post \in {<<>>, <<"n">>, <<"\n", "1">>}}

VarXSource ==
    <<"v","a","r"," ","x",":"," ","I","n","t"," ","="," ","4","2",";">>

ExampleSources == {VarXSource, <<"1","2","3",".">>}

LexerSources == SeqsUpTo(Alphabet, MaxLen) \cup CommentSources \cup ExampleSources

(***************************************************************************)
(* The lexer as a state machine: one action per arm of the loop body of    *)
(* Lexer.tokenize.                                                         *)
(***************************************************************************)
LexerIdle ==
    /\ lexer = NewLexer(<<>>)
    /\ tokens = <<>>
    /\ lexpc = "idle"

ParserIdle ==
    /\ parser = [source |-> <<>>, tokens |-> <<>>, current |-> 0, errors |-> <<>>]
    /\ statements = <<>>
    /\ parpc = "idle"

AnalysisIdle ==
    /\ type_checker = [heap |-> <<>>, symbol_table |-> 0, errors |-> <<>>,
                       current_function |-> [kind |-> "None"]]
    /\ semantic_analyzer = [heap |-> <<>>, symbol_table |-> 0, definitions |-> <<>>,
                            references |-> <<>>, errors |-> <<>>,
                            current_function |-> [kind |-> "None"],
                            raised |-> "not run"]
    /\ frames = <<>>
    /\ walk = [pc |-> "idle", count |-> 0, event |-> "idle",
               node |-> [kind |-> "None"], value |-> <<>>]

\* no call has reached the server; an empty dict is the empty function
NoCall == [method |-> "idle", uri |-> "", line |-> 0, character |-> 0]

Call(method, uri, line, character) ==
    [method |-> method, uri |-> uri, line |-> line, character |-> character]

ServerIdle ==
    /\ server = [document_cache |-> <<>>, parsers |-> <<>>,
                 type_checkers |-> <<>>, semantic_analyzers |-> <<>>]
    /\ client = [texts |-> <<>>, call |-> NoCall, outcome |-> "idle",
                 result |-> <<>>, diagnostics |-> <<>>]

(***************************************************************************)
(* The symbol table (symbols.py).  The SymbolTable objects live in a heap, *)
(* a sequence; a scope is its index in the heap and 0 stands for None.     *)
(* A dict is a function on the set of its keys; an absent symbol (None) is *)
(* NoSymbol.                                                               *)
(***************************************************************************)
NoScope == 0

NoSymbol == [kind |-> "None"]

VariableSymbol(name, type_name) ==
    [kind |-> "VariableSymbol", name |-> name, type_name |-> type_name,
     is_mutable |-> TRUE]

FunctionSymbol(name, type_name, parameters, is_builtin) ==
    [kind |-> "FunctionSymbol", name |-> name, type_name |-> type_name,
     parameters |-> parameters, is_builtin |-> is_builtin]

SymbolTable(parent, name) == [symbols |-> <<>>, parent |-> parent, name |-> name]

GlobalName == <<"g","l","o","b","a","l">>

\* the names of the types, as the strings the analyzers pass around
IntType == <<"I","n","t">>

FloatType == <<"F","l","o","a","t">>

StringType == <<"S","t","r","i","n","g">>

VoidType == <<"V","o","i","d">>

AnyType == <<"A","n","y">>

UnknownType == <<"U","n","k","n","o","w","n">>

BooleanType == <<"B","o","o","l","e","a","n">>

\* f"Array<{element_type}>"
ArrayType(element_type) == <<"A","r","r","a","y","<">> \o element_type \o <<">">>

\* str(n) of a natural number
RECURSIVE IntToChars(_)
IntToChars(n) ==
    IF n < 10 THEN <<DigitChars[n + 1]>>
    ELSE IntToChars(n \div 10) \o <<DigitChars[(n % 10) + 1]>>

\* dict assignment d[key] = value
DictPut(d, key, value) ==
    [k \in (DOMAIN d) \cup {key} |-> IF k = key THEN value ELSE d[k]]

\* dict.get(key), None when absent
DictGet(d, key) == IF key \in DOMAIN d THEN d[key] ELSE NoSymbol

\* a plausible bug: the symbol is also defined in the enclosing scope
DefineInParentToo(heap, s, symbol) ==
    [t \in 1..Len(heap) |->
        IF t = s \/ t = heap[s].parent
        THEN [heap[t] EXCEPT !.symbols = DictPut(@, symbol.name, symbol)]
        ELSE heap[t]]

(***************************************************************************)
(* SymbolTable.define: the heap after the call                             *)
(***************************************************************************)
Define(heap, s, symbol) ==
    [heap EXCEPT ![s].symbols = DictPut(@, symbol.name, symbol)]

\* a plausible bug: the enclosing scopes are not consulted
ResolveNoWalk(heap, s, name) == DictGet(heap[s].symbols, name)

(***************************************************************************)
(* SymbolTable.resolve                                                     *)
(***************************************************************************)
RECURSIVE Resolve(_, _, _)
Resolve(heap, s, name) ==
    LET symbol == DictGet(heap[s].symbols, name)
    IN  IF symbol # NoSymbol THEN symbol
        ELSE IF heap[s].parent # NoScope THEN Resolve(heap, heap[s].parent, name)
        ELSE NoSymbol

ResolveLocal(heap, s, name) == DictGet(heap[s].symbols, name)

Contains(heap, s, name) == Resolve(heap, s, name) # NoSymbol

\* a binding anywhere along the parent chain counts as local
ContainsInChain(heap, s, name) == Resolve(heap, s, name) # NoSymbol

ContainsLocal(heap, s, name) == name \in DOMAIN heap[s].symbols

(***************************************************************************)
(* SymbolTable.create_child_scope: the heap after the call; the new scope  *)
(* is the last one.                                                        *)
(***************************************************************************)
ChildScopeName(heap, s, name) ==
    IF name # <<>> THEN name
    ELSE heap[s].name \o <<".","c","h","i","l","d">>
         \o IntToChars(Cardinality(DOMAIN heap[s].symbols))

CreateChildScope(heap, s, name) ==
    Append(heap, SymbolTable(s, ChildScopeName(heap, s, name)))

(***************************************************************************)
(* The symbol table as a state machine: define and create_child_scope are  *)
(* called on any scope, with symbols and labels from small sets.           *)
(***************************************************************************)
SymNames == {<<"x">>, <<"y">>}

SymbolInputs ==
    {VariableSymbol(<<"x">>, IntType), VariableSymbol(<<"x">>, StringType),
     FunctionSymbol(<<"y">>, VoidType, <<>>, FALSE)}

ScopeLabels == {<<>>}

SymCall(op, s, symbol, name, rebinding, result) ==
    [op |-> op, scope |-> s, symbol |-> symbol, name |-> name,
     rebinding |-> rebinding, result |-> result]

SymbolsIdle ==
    /\ scopes = <<>>
    /\ symcall = SymCall("idle", NoScope, NoSymbol, <<>>, FALSE, NoScope)

InitSymbols ==
    /\ scopes = <<SymbolTable(NoScope, GlobalName)>>
    /\ symcall = SymCall("SymbolTable", NoScope, NoSymbol, GlobalName, FALSE, 1)
    /\ LexerIdle
    /\ ParserIdle
    /\ AnalysisIdle
    /\ ServerIdle

SymDefine ==
    \E s \in 1..Len(scopes), symbol \in SymbolInputs :
        /\ scopes' = Define(scopes, s, symbol)
        /\ symcall' = SymCall("define", s, symbol, <<>>,
                              ContainsLocal(scopes, s, symbol.name), s)
        /\ UNCHANGED notSymVars

SymCreateChildScope ==
    \E s \in 1..Len(scopes), name \in ScopeLabels :
        /\ Len(scopes) < MaxScopes
        /\ scopes' = CreateChildScope(scopes, s, name)
        /\ symcall' = SymCall("create_child_scope", s, NoSymbol, name, FALSE,
                              Len(scopes) + 1)
        /\ UNCHANGED notSymVars

NextSymbols ==
    \/ SymDefine
    \/ SymCreateChildScope

SpecSymbols == InitSymbols /\ [][NextSymbols]_vars

InitLexer ==
    /\ lexer \in {NewLexer(src) : src \in LexerSources}
    /\ tokens = <<>>
    /\ lexpc = "scan"
    /\ ParserIdle
    /\ SymbolsIdle
    /\ AnalysisIdle
    /\ ServerIdle

LexWhitespace ==
    /\ lexpc = "scan" /\ Arm(lexer) = "space"
    /\ lexer' = SkipWhitespace(lexer)
    /\ UNCHANGED <<tokens, lexpc>>
    /\ UNCHANGED notLexVars

LexComment ==
    /\ lexpc = "scan" /\ Arm(lexer) = "comment"
    /\ lexer' = SkipComment(lexer)
    /\ UNCHANGED <<tokens, lexpc>>
    /\ UNCHANGED notLexVars

Emit(r) ==
    IF r.raised
    THEN /\ lexer' = r.lx
         /\ lexpc' = "raised"
         /\ UNCHANGED tokens
    ELSE /\ lexer' = r.lx
         /\ tokens' = Append(tokens, r.tok)
         /\ UNCHANGED lexpc

LexIdentifier ==
    /\ lexpc = "scan" /\ Arm(lexer) = "identifier"
    /\ Emit(Identifier(lexer))
    /\ UNCHANGED notLexVars

LexNumber ==
    /\ lexpc = "scan" /\ Arm(lexer) = "number"
    /\ Emit(Number(lexer))
    /\ UNCHANGED notLexVars

LexString ==
    /\ lexpc = "scan" /\ Arm(lexer) = "string"
    /\ Emit(String(lexer))
    /\ UNCHANGED notLexVars

LexTwoChar ==
    /\ lexpc = "scan" /\ Arm(lexer) = "twochar"
    /\ Emit(TwoCharOperator(lexer))
    /\ UNCHANGED notLexVars

LexSingleChar ==
    /\ lexpc = "scan" /\ Arm(lexer) = "single"
    /\ Emit(SingleCharOperator(lexer))
    /\ UNCHANGED notLexVars

LexUnrecognized ==
    /\ lexpc = "scan" /\ Arm(lexer) = "unrecognized"
    /\ Emit(SingleCharOperator(lexer))
    /\ UNCHANGED notLexVars

LexEOF ==
    /\ lexpc = "scan" /\ Arm(lexer) = "eof"
    /\ tokens' = Append(tokens, EOFToken(lexer))
    /\ lexpc' = "done"
    /\ UNCHANGED lexer
    /\ UNCHANGED notLexVars

NextLexer ==
    \/ LexWhitespace
    \/ LexComment
    \/ LexIdentifier
    \/ LexNumber
    \/ LexString
    \/ LexTwoChar
    \/ LexSingleChar
    \/ LexUnrecognized
    \/ LexEOF

SpecLexer == InitLexer /\ [][NextLexer]_vars

(***************************************************************************)
(* Positions in a source text, counted from the text itself.               *)
(***************************************************************************)
SetMax(S) == CHOOSE x \in S : \A y \in S : y <= x

SetMin(S) == CHOOSE x \in S : \A y \in S : x <= y

NewlinesBefore(src, i) == {j \in 1..(i - 1) : j <= Len(src) /\ src[j] = "\n"}

\* the 1-based line and column of the i-th character of src
LineOf(src, i) == 1 + Cardinality(NewlinesBefore(src, i))

ColOf(src, i) ==
    IF NewlinesBefore(src, i) = {} THEN i ELSE i - SetMax(NewlinesBefore(src, i))

\* the index of the character at (line, column); Len(src) + 1 is the end of input
IndexAt(src, line, column) ==
    {i \in 1..(Len(src) + 1) : LineOf(src, i) = line /\ ColOf(src, i) = column}

\* value is the contiguous substring of src that starts at index i
SubAt(src, i, value) ==
    /\ i >= 1
    /\ i + Len(value) - 1 <= Len(src)
    /\ SubSeq(src, i, i + Len(value) - 1) = value

Quotes == {"\"", "'"}

IsStringToken(src, t) ==
    \/ t.type = "STRING"
    \/ /\ t.type = "ERROR"
       /\ \E i \in IndexAt(src, t.line, t.column) : i <= Len(src) /\ src[i] \in Quotes

RECURSIVE Concat(_)
Concat(seqs) == IF seqs = <<>> THEN <<>> ELSE Head(seqs) \o Concat(Tail(seqs))

TokenValues(toks) == [k \in 1..Len(toks) |-> toks[k].value]

(***************************************************************************)
(* C1: for every source, the empty one included, tokenize terminates       *)
(* without raising and returns tokens whose last one is EOF and that hold  *)
(* no other EOF; for the empty source the EOF token is at (1, 1).          *)
(* Termination: every step of the loop moves the position forward or       *)
(* returns, the position never passes the end of the source, and the loop  *)
(* condition (current_char is not None) fails exactly at the end.          *)
(***************************************************************************)
EOFOnlyLast ==
    \A k \in 1..Len(tokens) :
        tokens[k].type = "EOF" <=> (lexpc = "done" /\ k = Len(tokens))

C1_Progress ==
    lexpc = "scan" => (lexer'.position > lexer.position \/ lexpc' = "done")

C1_TokenizeTotal ==
    /\ [](lexpc # "raised")
    /\ [](EOFOnlyLast)
    /\ [](lexpc = "done" =>
            /\ Len(tokens) >= 1
            /\ tokens[Len(tokens)].type = "EOF"
            /\ (lexer.source = <<>> => tokens = <<Token("EOF", <<>>, 1, 1)>>))
    /\ [](lexer.position <= Len(lexer.source))
    /\ [](lexer.current_char = None <=> lexer.position = Len(lexer.source))
    /\ [][C1_Progress]_vars

\* tokenize returned on a source that ends inside an escape of a string
C1_Witness ==
    /\ lexpc = "done"
    /\ lexer.source = <<"n", "\"", "\\">>
    /\ Len(tokens) = 3

(***************************************************************************)
(* C2 as stated: for every token other than EOF, value is a contiguous     *)
(* substring of the source and (line, column) is the position of the first *)
(* character of value, for all token kinds.                                *)
(***************************************************************************)
C2_ValueIsSubstringAtPosition ==
    \A k \in 1..Len(tokens) :
        tokens[k].type # "EOF" =>
            \E i \in IndexAt(lexer.source, tokens[k].line, tokens[k].column) :
                SubAt(lexer.source, i, tokens[k].value)

(***************************************************************************)
(* C2 amended: (line, column) of every token other than EOF is the         *)
(* position of the first source character of the token.  The value is the  *)
(* substring that starts there, except that a FLOAT written with a         *)
(* trailing '.' carries that substring followed by "0", and a string       *)
(* literal (STRING, or ERROR when unterminated) is positioned at its       *)
(* opening quote and carries the content after it (the substring that      *)
(* starts one character later when the content has no backslash).          *)
(***************************************************************************)
TokenAtPosition(src, t, i) ==
    CASE IsStringToken(src, t) ->
            /\ i <= Len(src)
            /\ src[i] \in Quotes
            /\ i + Len(t.value) <= Len(src)
            /\ (\A j \in (i + 1)..(i + Len(t.value)) : src[j] # "\\")
                    => SubAt(src, i + 1, t.value)
      [] t.type = "FLOAT" ->
            \/ SubAt(src, i, t.value)
            \/ /\ Len(t.value) >= 2
               /\ t.value[Len(t.value)] = "0"
               /\ t.value[Len(t.value) - 1] = "."
               /\ SubAt(src, i, SubSeq(t.value, 1, Len(t.value) - 1))
      [] OTHER -> Len(t.value) >= 1 /\ SubAt(src, i, t.value)

C2_TokenPositions ==
    \A k \in 1..Len(tokens) :
        tokens[k].type # "EOF" =>
            \E i \in IndexAt(lexer.source, tokens[k].line, tokens[k].column) :
                TokenAtPosition(lexer.source, tokens[k], i)

\* a string literal with an escape sequence was lexed after another token
C2_Witness ==
    /\ lexpc = "done"
    /\ Len(tokens) = 3
    /\ tokens[1].type = "IDENTIFIER"
    /\ tokens[2].type = "STRING"
    /\ tokens[2].value = <<"\n">>

(***************************************************************************)
(* The source with whitespace and comments removed, from the text alone:   *)
(* "//" runs to the end of the line, a block comment to the first closing  *)
(* star-slash after its opening, or to the end of input.                   *)
(***************************************************************************)
EndOfLine(src, i) ==
    SetMin({j \in i..(Len(src) + 1) : j = Len(src) + 1 \/ src[j] = "\n"})

AfterBlock(src, i) ==
    LET closes == {j \in (i + 2)..(Len(src) - 1) : src[j] = "*" /\ src[j + 1] = "/"}
    IN  IF closes = {} THEN Len(src) + 1 ELSE SetMin(closes) + 2

StartsWith(src, i, a, b) == i + 1 <= Len(src) /\ src[i] = a /\ src[i + 1] = b

RECURSIVE StripFrom(_, _)
StripFrom(src, i) ==
    IF i > Len(src) THEN <<>>
    ELSE IF IsSpace(src[i]) THEN StripFrom(src, i + 1)
    ELSE IF StartsWith(src, i, "/", "/") THEN StripFrom(src, EndOfLine(src, i))
    ELSE IF StartsWith(src, i, "/", "*") THEN StripFrom(src, AfterBlock(src, i))
    ELSE <<src[i]>> \o StripFrom(src, i + 1)

Stripped(src) == StripFrom(src, 1)

(***************************************************************************)
(* C3 as stated: for every source, the concatenation of the token values   *)
(* is the source with whitespace and comments removed.                     *)
(***************************************************************************)
C3_ConcatIsStrippedSource ==
    lexpc = "done" => Concat(TokenValues(tokens)) = Stripped(lexer.source)

(***************************************************************************)
(* C3 amended: the concatenation of the token values is the source with    *)
(* whitespace and comments removed for every source whose tokens hold no   *)
(* string literal (terminated or not) and no FLOAT written with a trailing *)
(* '.'.                                                                    *)
(***************************************************************************)
NoStringNoTrailingDot ==
    \A k \in 1..Len(tokens) :
        /\ ~IsStringToken(lexer.source, tokens[k])
        /\ tokens[k].type = "FLOAT" =>
              \E i \in IndexAt(lexer.source, tokens[k].line, tokens[k].column) :
                  SubAt(lexer.source, i, tokens[k].value)

C3_ConcatWithoutLiterals ==
    (lexpc = "done" /\ NoStringNoTrailingDot)
        => Concat(TokenValues(tokens)) = Stripped(lexer.source)

\* two tokens around a block comment that holds a newline
C3_Witness ==
    /\ lexpc = "done"
    /\ NoStringNoTrailingDot
    /\ Len(tokens) = 3
    /\ Len(lexer.source) >= Len(Stripped(lexer.source)) + 5
    /\ \E i \in 1..Len(lexer.source) : lexer.source[i] = "\n"

(***************************************************************************)
(* C4: a string literal with no matching closing quote before the end of   *)
(* input yields exactly one ERROR token, at the line and column of the     *)
(* opening quote, carrying the accumulated text; only EOF follows it.      *)
(***************************************************************************)
\* whether the literal opened by quote q closes at or after index i
RECURSIVE Closes(_, _, _)
Closes(src, i, q) ==
    IF i > Len(src) THEN FALSE
    ELSE IF src[i] = q THEN TRUE
    ELSE IF src[i] = "\\" /\ i < Len(src) THEN Closes(src, i + 2, q)
    ELSE Closes(src, i + 1, q)

RECURSIVE Unescaped(_)
Unescaped(s) ==
    IF s = <<>> THEN <<>>
    ELSE IF Head(s) = "\\" /\ Len(s) >= 2
         THEN <<EscapeMap(s[2])>> \o Unescaped(SubSeq(s, 3, Len(s)))
         ELSE <<Head(s)>> \o Unescaped(Tail(s))

UnterminatedAt(lx) ==
    /\ lx.current_char \in Quotes
    /\ ~Closes(lx.source, lx.position + 2, lx.current_char)

C4_UnterminatedStep ==
    (lexpc = "scan" /\ Arm(lexer) = "string" /\ UnterminatedAt(lexer)) =>
        /\ tokens' = Append(tokens,
                Token("ERROR",
                      Unescaped(SubSeq(lexer.source, lexer.position + 2,
                                       Len(lexer.source))),
                      LineOf(lexer.source, lexer.position + 1),
                      ColOf(lexer.source, lexer.position + 1)))
        /\ lexpc' = "scan"
        /\ Arm(lexer') = "eof"

C4_UnterminatedString == [][C4_UnterminatedStep]_vars

\* an unterminated literal with text, after another token, was lexed
C4_Witness ==
    /\ lexpc = "done"
    /\ Len(tokens) = 3
    /\ tokens[2].type = "ERROR"
    /\ tokens[2].value = <<"n", "'">>
    /\ tokens[2].column = 2

(***************************************************************************)
(* C5: every consumed newline increments line and resets column to 1,      *)
(* every other consumed character increments column; a token that follows  *)
(* a block comment holding N newlines is on the comment's line plus N.     *)
(***************************************************************************)
NewlinesIn(src, from, to) ==
    Cardinality({j \in from..to : j <= Len(src) /\ src[j] = "\n"})

StartsToken(lx) == Arm(lx) \notin {"eof", "space", "comment"}

C5_BlockCommentStep ==
    (lexpc = "scan" /\ Arm(lexer) = "comment" /\ Peek(lexer) = "*") =>
        LET from == lexer.position + 1
            next == AfterBlock(lexer.source, from)
            N == NewlinesIn(lexer.source, from, next - 1)
        IN  /\ lexer'.position = next - 1
            /\ lexer'.line = lexer.line + N
            /\ StartsToken(lexer') => ScanToken(lexer').tok.line = lexer.line + N

C5_LineColumnTracking ==
    /\ [](/\ lexer.line = LineOf(lexer.source, lexer.position + 1)
          /\ lexer.column = ColOf(lexer.source, lexer.position + 1))
    /\ [][C5_BlockCommentStep]_vars

\* a token on line 3 follows a comment that began on line 1
C5_Witness ==
    /\ lexpc = "done"
    /\ lexer.source = <<"n", "/", "*", "\n", "n", "\n", "*", "/", "n">>
    /\ Len(tokens) = 3
    /\ tokens[2].line = 3
    /\ tokens[2].column = 3

(***************************************************************************)
(* The parser (parser.py).  The scanning operators return the parser after *)
(* the call, the node built, and whether a ParseError was raised (with the *)
(* error).                                                                 *)
(***************************************************************************)
NewParser(src) ==
    [source |-> src, tokens |-> Tokenize(src).tokens, current |-> 0, errors |-> <<>>]

\* ParseError(token, message); the message is a text and the value put in it
ParseError(token, text, value) ==
    [token |-> token, message |-> [text |-> text, value |-> value]]

ParserPeek(p) == p.tokens[p.current + 1]

\* tokens[current - 1]; Python's index -1 is the last element
Previous(p) ==
    IF p.current = 0 THEN p.tokens[Len(p.tokens)] ELSE p.tokens[p.current]

IsAtEnd(p) == ParserPeek(p).type = "EOF"

\* a plausible bug: the test of is_at_end is inverted
ParserAdvanceInverted(p) ==
    IF IsAtEnd(p) /\ p.current + 1 < Len(p.tokens)
    THEN [p EXCEPT !.current = @ + 1]
    ELSE p

ParserAdvance(p) == IF ~IsAtEnd(p) THEN [p EXCEPT !.current = @ + 1] ELSE p

Check(p, type) == IF IsAtEnd(p) THEN FALSE ELSE ParserPeek(p).type = type

Raise(p, error) == [p |-> p, node |-> None, raised |-> TRUE, error |-> error]

Return(p, node) == [p |-> p, node |-> node, raised |-> FALSE, error |-> None]

Consume(p, type, text) ==
    IF Check(p, type)
    THEN Return(ParserAdvance(p), None)
    ELSE Raise(p, ParseError(ParserPeek(p), text, <<>>))

\* int(token.value) and float(token.value) of a decimal literal
DigitValue(c) == (CHOOSE n \in 1..10 : DigitChars[n] = c) - 1

RECURSIVE IntValue(_)
IntValue(digits) ==
    IF digits = <<>> THEN 0
    ELSE 10 * IntValue(SubSeq(digits, 1, Len(digits) - 1))
         + DigitValue(digits[Len(digits)])

RECURSIVE PowerOfTen(_)
PowerOfTen(n) == IF n = 0 THEN 1 ELSE 10 * PowerOfTen(n - 1)

\* the float as the fraction num / den
FloatValue(value) ==
    LET dot == CHOOSE i \in 1..Len(value) : value[i] = "."
    IN  [num |-> IntValue(SubSeq(value, 1, dot - 1) \o SubSeq(value, dot + 1, Len(value))),
         den |-> PowerOfTen(Len(value) - dot)]

Literal(kind, value, line, column) ==
    [kind |-> kind, value |-> value, line |-> line, column |-> column]

IdentifierNode(name, line, column) ==
    [kind |-> "Identifier", name |-> name, line |-> line, column |-> column]

(***************************************************************************)
(* Parser.primary and Parser.expression (which is primary)                 *)
(***************************************************************************)
RECURSIVE Primary(_)
Primary(p) ==
    LET token == ParserPeek(p)
    IN  CASE token.type = "INTEGER" ->
                Return(ParserAdvance(p),
                       Literal("IntegerLiteral", IntValue(token.value),
                               token.line, token.column))
          [] token.type = "FLOAT" ->
                Return(ParserAdvance(p),
                       Literal("FloatLiteral", FloatValue(token.value),
                               token.line, token.column))
          [] token.type = "STRING" ->
                Return(ParserAdvance(p),
                       Literal("StringLiteral", token.value, token.line, token.column))
          [] token.type = "IDENTIFIER" ->
                Return(ParserAdvance(p),
                       IdentifierNode(token.value, token.line, token.column))
          [] token.type = "LPAREN" ->
                LET expr == Primary(ParserAdvance(p))
                IN  IF expr.raised THEN expr
                    ELSE LET c == Consume(expr.p, "RPAREN",
                                          "Expected ')' after expression.")
                         IN  IF c.raised THEN c ELSE Return(c.p, expr.node)
          [] OTHER ->
                Raise(ParserAdvance(p),
                      ParseError(token, "Unexpected token: ", token.value))

Expression(p) == Primary(p)

(***************************************************************************)
(* Parser.expression_statement, Parser.statement, Parser.declaration       *)
(***************************************************************************)
ExpressionStatement(p) ==
    LET expr == Expression(p)
    IN  IF expr.raised THEN expr
        ELSE LET c == Consume(expr.p, "SEMICOLON", "Expected ';' after expression.")
             IN  IF c.raised THEN c
                 ELSE Return(c.p, [kind |-> "ExpressionStatement",
                                   expression |-> expr.node,
                                   line |-> expr.node.line,
                                   column |-> expr.node.column])

Statement(p) == ExpressionStatement(p)

Declaration(p) == Statement(p)

(***************************************************************************)
(* Parser.synchronize                                                      *)
(***************************************************************************)
SyncKeywords == {"FUNCTION", "SPELL", "IF", "WHILE", "FOR", "RETURN"}

RECURSIVE SynchronizeLoop(_)
SynchronizeLoop(p) ==
    IF IsAtEnd(p) THEN p
    ELSE IF Previous(p).type = "SEMICOLON" THEN p
    ELSE IF ParserPeek(p).type \in SyncKeywords THEN p
    ELSE SynchronizeLoop(ParserAdvance(p))

Synchronize(p) == SynchronizeLoop(ParserAdvance(p))

(***************************************************************************)
(* The sources the parser is built on: up to MaxWords lexemes separated by *)
(* a space, and the variable declaration of the specification.             *)
(***************************************************************************)
Words ==
    {<<"1">>, <<"x">>, <<"(">>, <<")">>, <<";">>, <<"i", "f">>, <<"+">>,
     <<"2", ".">>, <<"'", "s", "'">>, <<"p", "r", "i", "n", "t">>}

RECURSIVE JoinWords(_)
JoinWords(ws) ==
    IF ws = <<>> THEN <<>>
    ELSE IF Len(ws) = 1 THEN ws[1]
    ELSE ws[1] \o <<" ">> \o JoinWords(Tail(ws))

ParserSources == {JoinWords(ws) : ws \in SeqsUpTo(Words, MaxWords)} \cup {VarXSource}

(***************************************************************************)
(* Parser.parse as a state machine: one action per iteration of its loop   *)
(* (a statement, or a ParseError caught, recorded and synchronized), and   *)
(* one for the return.                                                     *)
(***************************************************************************)
InitParser ==
    /\ parser \in {NewParser(src) : src \in ParserSources}
    /\ statements = <<>>
    /\ parpc = "loop"
    /\ LexerIdle
    /\ SymbolsIdle
    /\ AnalysisIdle
    /\ ServerIdle

ParseStatement ==
    /\ parpc = "loop" /\ ~IsAtEnd(parser)
    /\ LET r == Declaration(parser)
       IN  /\ ~r.raised
           /\ parser' = r.p
           /\ statements' = Append(statements, r.node)
    /\ UNCHANGED parpc
    /\ UNCHANGED notParVars

ParseRecover ==
    /\ parpc = "loop" /\ ~IsAtEnd(parser)
    /\ LET r == Declaration(parser)
       IN  /\ r.raised
           /\ parser' = Synchronize([r.p EXCEPT !.errors = Append(@, r.error)])
    /\ UNCHANGED <<statements, parpc>>
    /\ UNCHANGED notParVars

ParseReturn ==
    /\ parpc = "loop" /\ IsAtEnd(parser)
    /\ parpc' = "done"
    /\ UNCHANGED <<parser, statements>>
    /\ UNCHANGED notParVars

(***************************************************************************)
(* The analyzers (type_checker.py, semantic_analyzer.py), on the nodes the *)
(* parser builds: a Program of ExpressionStatements over Identifier,       *)
(* IntegerLiteral, FloatLiteral and StringLiteral.  A walker is a record   *)
(* of its fields; its scopes live in its own heap.  A visit returns the    *)
(* walker after the visit and the value the method returns.                *)
(***************************************************************************)
Program(stmts) == [kind |-> "Program", statements |-> stmts]

PrintName == <<"p","r","i","n","t">>

PrintSymbol ==
    FunctionSymbol(PrintName, VoidType,
                   <<VariableSymbol(<<"v","a","l","u","e">>, AnyType)>>, TRUE)

TypeError(message, line, column) ==
    [message |-> message, line |-> line, column |-> column]

Visited(walker, value) == [walker |-> walker, value |-> value]

\* TypeChecker.__init__ and _init_builtins
NewTypeChecker ==
    [heap |-> Define(<<SymbolTable(NoScope, GlobalName)>>, 1, PrintSymbol),
     symbol_table |-> 1, errors |-> <<>>, current_function |-> NoSymbol]

TypeChecker_visit_identifier(tc, node) ==
    LET symbol == Resolve(tc.heap, tc.symbol_table, node.name)
    IN  IF symbol = NoSymbol
        THEN Visited([tc EXCEPT !.errors = Append(@,
                         TypeError(<<"U","n","d","e","f","i","n","e","d"," ","i","d","e","n","t","i","f","i","e","r"," ","'">> \o node.name \o <<"'">>,
                                   node.line, node.column))],
                     UnknownType)
        ELSE Visited(tc, symbol.type_name)

(***************************************************************************)
(* The nodes of ast.py that only hand-built programs hold.  An absent      *)
(* optional child (None) is NoNode, an absent type annotation NoAnnotation.*)
(***************************************************************************)
NoNode == [kind |-> "None"]

NoAnnotation == <<None>>

BooleanLiteral(value, line, column) ==
    [kind |-> "BooleanLiteral", value |-> value, line |-> line, column |-> column]

BinaryExpression(left, operator, right, line, column) ==
    [kind |-> "BinaryExpression", left |-> left, operator |-> operator,
     right |-> right, line |-> line, column |-> column]

UnaryExpression(operator, right, line, column) ==
    [kind |-> "UnaryExpression", operator |-> operator, right |-> right,
     line |-> line, column |-> column]

CallExpression(callee, arguments, line, column) ==
    [kind |-> "CallExpression", callee |-> callee, arguments |-> arguments,
     line |-> line, column |-> column]

AssignmentExpression(target, value, line, column) ==
    [kind |-> "AssignmentExpression", target |-> target, value |-> value,
     line |-> line, column |-> column]

ArrayLiteral(elements, line, column) ==
    [kind |-> "ArrayLiteral", elements |-> elements, line |-> line,
     column |-> column]

VariableDeclaration(name, type_annotation, initializer, line, column) ==
    [kind |-> "VariableDeclaration", name |-> name,
     type_annotation |-> type_annotation, initializer |-> initializer,
     line |-> line, column |-> column]

Parameter(name, type_annotation) ==
    [kind |-> "Parameter", name |-> name, type_annotation |-> type_annotation]

ReturnStatement(value, line, column) ==
    [kind |-> "ReturnStatement", value |-> value, line |-> line, column |-> column]

ExpressionStatementNode(expression, line, column) ==
    [kind |-> "ExpressionStatement", expression |-> expression, line |-> line,
     column |-> column]

\* TypeChecker.types
Types ==
    {VoidType, IntType, FloatType, StringType, BooleanType, <<"A","r","r","a","y">>, <<"M","a","p">>,
     <<"E","l","e","m","e","n","t">>, <<"E","n","e","r","g","y">>, <<"S","p","i","r","i","t">>, <<"M","a","t","t","e","r">>}

\* self.errors.append(TypeError(message, line, column))
TypeChecker_error(tc, message, line, column) ==
    [tc EXCEPT !.errors = Append(@, TypeError(message, line, column))]

RECURSIVE TypeChecker_accept(_, _)

\* arithmetic without division
ArithmeticOperatorsNoDivision == {<<"+">>, <<"-">>, <<"*">>}

ArithmeticOperators == {<<"+">>, <<"-">>, <<"*">>, <<"/">>}

\* comparison without equality
ComparisonOperatorsNoEquality == {<<"!","=">>, <<"<">>, <<">">>, <<"<","=">>, <<">","=">>}

ComparisonOperators == {<<"=","=">>, <<"!","=">>, <<"<">>, <<">">>, <<"<","=">>, <<">","=">>}

TypeChecker_visit_binary_expression(tc, node) ==
    LET left == TypeChecker_accept(tc, node.left)
        right == TypeChecker_accept(left.walker, node.right)
        left_type == left.value
        right_type == right.value
        failed ==
            Visited(TypeChecker_error(right.walker,
                        <<"C","a","n","n","o","t"," ","a","p","p","l","y"," ","o","p","e","r","a","t","o","r"," ","'">> \o node.operator
                        \o <<"'"," ","t","o"," ","t","y","p","e","s"," ","'">> \o left_type \o <<"'"," ","a","n","d"," ","'">>
                        \o right_type \o <<"'">>,
                        node.line, node.column),
                    UnknownType)
    IN  IF node.operator \in ArithmeticOperators
        THEN IF left_type = IntType /\ right_type = IntType
             THEN Visited(right.walker, IntType)
             ELSE IF left_type \in {IntType, FloatType}
                     /\ right_type \in {IntType, FloatType}
             THEN Visited(right.walker, FloatType)
             ELSE IF node.operator = <<"+">>
                     /\ (left_type = StringType \/ right_type = StringType)
             THEN Visited(right.walker, StringType)
             ELSE failed
        ELSE IF node.operator \in ComparisonOperators
        THEN Visited(right.walker, BooleanType)
        ELSE failed

TypeChecker_visit_unary_expression(tc, node) ==
    LET right == TypeChecker_accept(tc, node.right)
        right_type == right.value
    IN  IF node.operator = <<"-">> /\ right_type \in {IntType, FloatType}
        THEN Visited(right.walker, right_type)
        ELSE IF node.operator = <<"!">> /\ right_type = BooleanType
        THEN Visited(right.walker, BooleanType)
        ELSE Visited(TypeChecker_error(right.walker,
                         <<"C","a","n","n","o","t"," ","a","p","p","l","y"," ","u","n","a","r","y"," ","o","p","e","r","a","t","o","r"," ","'">> \o node.operator
                         \o <<"'"," ","t","o"," ","t","y","p","e"," ","'">> \o right_type \o <<"'">>,
                         node.line, node.column),
                     UnknownType)

\* a call that does not look at its arguments
TypeChecker_skip_arguments(tc, func_name, arguments, parameters, i) == tc

\* the loop of visit_call_expression over zip(arguments, parameters), from
\* the i-th pair on
RECURSIVE TypeChecker_check_arguments(_, _, _, _, _)
TypeChecker_check_arguments(tc, func_name, arguments, parameters, i) ==
    IF i > Len(arguments) \/ i > Len(parameters) THEN tc
    ELSE LET arg == TypeChecker_accept(tc, arguments[i])
             arg_type == arg.value
             param == parameters[i]
             after ==
                 IF arg_type # param.type_name /\ param.type_name # AnyType
                 THEN TypeChecker_error(arg.walker,
                          <<"A","r","g","u","m","e","n","t"," ">> \o IntToChars(i) \o <<" ","t","o"," ","f","u","n","c","t","i","o","n"," ","'">>
                          \o func_name \o <<"'"," ","m","u","s","t"," ","b","e"," ","o","f"," ","t","y","p","e"," ","'">>
                          \o param.type_name \o <<"'",","," ","g","o","t"," ","'">> \o arg_type \o <<"'">>,
                          arguments[i].line, arguments[i].column)
                 ELSE arg.walker
         IN  TypeChecker_check_arguments(after, func_name, arguments,
                                         parameters, i + 1)

TypeChecker_visit_call_expression(tc, node) ==
    LET callee == TypeChecker_accept(tc, node.callee)
        callee_type == callee.value
        tc1 == callee.walker
        func_name == node.callee.name
        func_symbol == Resolve(tc1.heap, tc1.symbol_table, func_name)
    IN  IF node.callee.kind = "Identifier"
        THEN IF func_symbol = NoSymbol
             THEN Visited(TypeChecker_error(tc1,
                              <<"U","n","d","e","f","i","n","e","d"," ","f","u","n","c","t","i","o","n"," ","'">> \o func_name \o <<"'">>,
                              node.line, node.column),
                          UnknownType)
             ELSE IF func_symbol.kind # "FunctionSymbol"
             THEN Visited(TypeChecker_error(tc1,
                              <<"C","a","n","n","o","t"," ","c","a","l","l"," ","n","o","n","-","f","u","n","c","t","i","o","n"," ","'">> \o func_name \o <<"'">>,
                              node.line, node.column),
                          UnknownType)
             ELSE IF Len(node.arguments) # Len(func_symbol.parameters)
             THEN Visited(TypeChecker_error(tc1,
                              <<"F","u","n","c","t","i","o","n"," ","'">> \o func_name \o <<"'"," ","e","x","p","e","c","t","s"," ">>
                              \o IntToChars(Len(func_symbol.parameters))
                              \o <<" ","a","r","g","u","m","e","n","t","s",","," ","b","u","t"," ","g","o","t"," ">>
                              \o IntToChars(Len(node.arguments)),
                              node.line, node.column),
                          func_symbol.type_name)
             ELSE Visited(TypeChecker_check_arguments(tc1, func_name,
                              node.arguments, func_symbol.parameters, 1),
                          func_symbol.type_name)
        ELSE Visited(TypeChecker_error(tc1,
                         <<"E","x","p","r","e","s","s","i","o","n"," ","o","f"," ","t","y","p","e"," ","'">> \o callee_type
                         \o <<"'"," ","i","s"," ","n","o","t"," ","c","a","l","l","a","b","l","e">>,
                         node.line, node.column),
                     UnknownType)

TypeChecker_visit_assignment_expression(tc, node) ==
    LET var_name == node.target.name
        var_symbol == Resolve(tc.heap, tc.symbol_table, var_name)
        tc1 == IF var_symbol.kind = "VariableSymbol" /\ ~var_symbol.is_mutable
               THEN TypeChecker_error(tc,
                        <<"C","a","n","n","o","t"," ","a","s","s","i","g","n"," ","t","o"," ","i","m","m","u","t","a","b","l","e"," ","v","a","r","i","a","b","l","e"," ","'">> \o var_name
                        \o <<"'">>, node.line, node.column)
               ELSE tc
        value == TypeChecker_accept(tc1, node.value)
        value_type == value.value
    IN  IF node.target.kind = "Identifier"
        THEN IF var_symbol = NoSymbol
             THEN Visited(TypeChecker_error(tc,
                              <<"U","n","d","e","f","i","n","e","d"," ","v","a","r","i","a","b","l","e"," ","'">> \o var_name \o <<"'">>,
                              node.line, node.column),
                          UnknownType)
             ELSE IF value_type # var_symbol.type_name
             THEN Visited(TypeChecker_error(value.walker,
                              <<"C","a","n","n","o","t"," ","a","s","s","i","g","n"," ","a"," ","v","a","l","u","e"," ","o","f"," ","t","y","p","e"," ","'">> \o value_type
                              \o <<"'"," ","t","o"," ","a"," ","v","a","r","i","a","b","l","e"," ","o","f"," ","t","y","p","e"," ","'">>
                              \o var_symbol.type_name \o <<"'">>,
                              node.line, node.column),
                          var_symbol.type_name)
             ELSE Visited(value.walker, var_symbol.type_name)
        ELSE Visited(TypeChecker_error(tc, <<"I","n","v","a","l","i","d"," ","a","s","s","i","g","n","m","e","n","t"," ","t","a","r","g","e","t">>,
                                       node.line, node.column),
                     UnknownType)

\* an array literal that looks at its first element only
TypeChecker_skip_elements(tc, elements, element_type, i) == tc

\* the loop of visit_array_literal over elements[1:], from the i-th element on
RECURSIVE TypeChecker_check_elements(_, _, _, _)
TypeChecker_check_elements(tc, elements, element_type, i) ==
    IF i > Len(elements) THEN tc
    ELSE LET element == TypeChecker_accept(tc, elements[i])
             current_type == element.value
             after ==
                 IF current_type # element_type
                 THEN TypeChecker_error(element.walker,
                          <<"A","r","r","a","y"," ","e","l","e","m","e","n","t","s"," ","m","u","s","t"," ","a","l","l"," ","h","a","v","e"," ","t","h","e"," ","s","a","m","e"," ","t","y","p","e","."," ","E","x","p","e","c","t","e","d"," ","'">>
                          \o element_type \o <<"'",","," ","g","o","t"," ","'">> \o current_type \o <<"'">>,
                          elements[i].line, elements[i].column)
                 ELSE element.walker
         IN  TypeChecker_check_elements(after, elements, element_type, i + 1)

TypeChecker_visit_array_literal(tc, node) ==
    IF node.elements = <<>> THEN Visited(tc, ArrayType(AnyType))
    ELSE LET first == TypeChecker_accept(tc, node.elements[1])
             element_type == first.value
         IN  Visited(TypeChecker_check_elements(first.walker, node.elements,
                                                element_type, 2),
                     ArrayType(element_type))

\* the type of a variable is always the type of its initializer
InferredType(type_annotation, init_type) == init_type

\* var_type: the annotation, or the type inferred for the initializer
DeclaredType(type_annotation, init_type) ==
    IF type_annotation # NoAnnotation THEN type_annotation ELSE init_type

TypeChecker_visit_variable_declaration(tc, node) ==
    LET init == IF node.initializer # NoNode
                THEN TypeChecker_accept(tc, node.initializer)
                ELSE Visited(tc, VoidType)
        init_type == init.value
        tc1 == IF node.type_annotation = NoAnnotation THEN init.walker
               ELSE IF node.type_annotation \notin Types
               THEN TypeChecker_error(init.walker,
                        <<"U","n","k","n","o","w","n"," ","t","y","p","e"," ","'">> \o node.type_annotation \o <<"'">>,
                        node.line, node.column)
               ELSE IF node.initializer # NoNode /\ init_type # node.type_annotation
               THEN TypeChecker_error(init.walker,
                        <<"C","a","n","n","o","t"," ","a","s","s","i","g","n"," ","a"," ","v","a","l","u","e"," ","o","f"," ","t","y","p","e"," ","'">> \o init_type
                        \o <<"'"," ","t","o"," ","a"," ","v","a","r","i","a","b","l","e"," ","o","f"," ","t","y","p","e"," ","'">> \o node.type_annotation
                        \o <<"'">>, node.line, node.column)
               ELSE init.walker
        var_type == DeclaredType(node.type_annotation, init_type)
    IN  IF ContainsLocal(tc1.heap, tc1.symbol_table, node.name.name)
        THEN Visited(TypeChecker_error(tc1,
                         <<"V","a","r","i","a","b","l","e"," ","'">> \o node.name.name
                         \o <<"'"," ","i","s"," ","a","l","r","e","a","d","y"," ","d","e","f","i","n","e","d"," ","i","n"," ","t","h","i","s"," ","s","c","o","p","e">>,
                         node.line, node.column),
                     None)
        ELSE Visited([tc1 EXCEPT !.heap = Define(@, tc1.symbol_table,
                          VariableSymbol(node.name.name, var_type))],
                     None)

TypeChecker_visit_return_statement(tc, node) ==
    LET value == TypeChecker_accept(tc, node.value)
        return_type == value.value
    IN  IF tc.current_function = NoSymbol
        THEN Visited(TypeChecker_error(tc, <<"R","e","t","u","r","n"," ","s","t","a","t","e","m","e","n","t"," ","o","u","t","s","i","d","e"," ","o","f"," ","f","u","n","c","t","i","o","n">>,
                                       node.line, node.column),
                     None)
        ELSE IF node.value = NoNode
        THEN IF tc.current_function.type_name # VoidType
             THEN Visited(TypeChecker_error(tc,
                              <<"F","u","n","c","t","i","o","n"," ","'">> \o tc.current_function.name
                              \o <<"'"," ","m","u","s","t"," ","r","e","t","u","r","n"," ","a"," ","v","a","l","u","e"," ","o","f"," ","t","y","p","e"," ","'">>
                              \o tc.current_function.type_name \o <<"'">>,
                              node.line, node.column),
                          None)
             ELSE Visited(tc, None)
        ELSE IF return_type # tc.current_function.type_name
        THEN Visited(TypeChecker_error(value.walker,
                         <<"C","a","n","n","o","t"," ","r","e","t","u","r","n"," ","a"," ","v","a","l","u","e"," ","o","f"," ","t","y","p","e"," ","'">> \o return_type
                         \o <<"'"," ","f","r","o","m"," ","a"," ","f","u","n","c","t","i","o","n"," ","w","i","t","h"," ","r","e","t","u","r","n"," ","t","y","p","e"," ","'">>
                         \o tc.current_function.type_name \o <<"'">>,
                         node.line, node.column),
                     None)
        ELSE Visited(value.walker, None)

(***************************************************************************)
(* Node.accept for the type checker: the visit method of the node's class, *)
(* for expressions and for the statements that hold no other statement.    *)
(* The statements that do are walked by the actions of the walk below.     *)
(***************************************************************************)
TypeChecker_accept(tc, node) ==
    CASE node.kind = "Identifier" -> TypeChecker_visit_identifier(tc, node)
      [] node.kind = "IntegerLiteral" -> Visited(tc, IntType)
      [] node.kind = "FloatLiteral" -> Visited(tc, FloatType)
      [] node.kind = "StringLiteral" -> Visited(tc, StringType)
      [] node.kind = "BooleanLiteral" -> Visited(tc, BooleanType)
      [] node.kind = "BinaryExpression" ->
            TypeChecker_visit_binary_expression(tc, node)
      [] node.kind = "UnaryExpression" ->
            TypeChecker_visit_unary_expression(tc, node)
      [] node.kind = "CallExpression" ->
            TypeChecker_visit_call_expression(tc, node)
      [] node.kind = "AssignmentExpression" ->
            TypeChecker_visit_assignment_expression(tc, node)
      [] node.kind = "ArrayLiteral" -> TypeChecker_visit_array_literal(tc, node)
      [] node.kind = "VariableDeclaration" ->
            TypeChecker_visit_variable_declaration(tc, node)
      [] node.kind = "ReturnStatement" ->
            TypeChecker_visit_return_statement(tc, node)
      [] node.kind = "ExpressionStatement" ->
            Visited(TypeChecker_accept(tc, node.expression).walker, None)

\* the loop of TypeChecker.visit_program
RECURSIVE TypeChecker_visit_statements(_, _)
TypeChecker_visit_statements(tc, stmts) ==
    IF stmts = <<>> THEN tc
    ELSE TypeChecker_visit_statements(TypeChecker_accept(tc, Head(stmts)).walker,
                                      Tail(stmts))

\* TypeChecker.check: the checker after the walk; its errors are returned
TypeChecker_check(tc, program) == TypeChecker_visit_statements(tc, program.statements)

Location(line, column) == [line |-> line, column |-> column]

Definition(name, kind, location, type_name, detail) ==
    [name |-> name, kind |-> kind, location |-> location,
     type_name |-> type_name, detail |-> detail]

Reference(name, location, definition) ==
    [name |-> name, location |-> location, definition |-> definition]

\* a definition that replaces the definitions recorded for its name
RecordDefinitionOnly(sa, name, kind, location, type_name, detail) ==
    [sa EXCEPT !.definitions =
        DictPut(@, name, <<Definition(name, kind, location, type_name, detail)>>)]

\* SemanticAnalyzer._record_definition
RecordDefinition(sa, name, kind, location, type_name, detail) ==
    LET definition == Definition(name, kind, location, type_name, detail)
        before == IF name \in DOMAIN sa.definitions THEN sa.definitions[name]
                  ELSE <<>>
    IN  [sa EXCEPT !.definitions = DictPut(@, name, Append(before, definition))]

\* SemanticAnalyzer._record_reference
RecordReference(sa, name, location, definition) ==
    [sa EXCEPT !.references = Append(@, Reference(name, location, definition))]

\* the definition recorded last for the name
FindLastDefinition(sa, name, location) ==
    LET definitions == IF name \in DOMAIN sa.definitions THEN sa.definitions[name]
                       ELSE <<>>
    IN  IF definitions = <<>> THEN NoSymbol ELSE definitions[Len(definitions)]

\* SemanticAnalyzer.find_definition; None is NoSymbol
FindDefinition(sa, name, location) ==
    LET definitions == IF name \in DOMAIN sa.definitions THEN sa.definitions[name]
                       ELSE <<>>
    IN  IF definitions = <<>> THEN NoSymbol ELSE definitions[1]

\* SemanticAnalyzer.__init__ and _init_builtins
NewSemanticAnalyzer ==
    RecordDefinition(
        [heap |-> Define(<<SymbolTable(NoScope, GlobalName)>>, 1, PrintSymbol),
         symbol_table |-> 1, definitions |-> <<>>, references |-> <<>>,
         errors |-> <<>>, current_function |-> NoSymbol, raised |-> "no"],
        PrintName, <<"f","u","n","c","t","i","o","n">>, Location(0, 0), VoidType,
        <<"B","u","i","l","t","-","i","n"," ","f","u","n","c","t","i","o","n",":"," ","p","r","i","n","t","(","v","a","l","u","e",":"," ","A","n","y",")"," ","-",">"," ","V","o","i","d">>)

SemanticAnalyzer_visit_identifier(sa, node) ==
    LET symbol == Resolve(sa.heap, sa.symbol_table, node.name)
        definition == FindDefinition(sa, node.name, Location(node.line, node.column))
    IN  IF symbol = NoSymbol
        THEN Visited([sa EXCEPT !.errors = Append(@,
                         <<"U","n","d","e","f","i","n","e","d"," ","i","d","e","n","t","i","f","i","e","r"," ","'">> \o node.name \o <<"'"," ","a","t"," ">>
                         \o IntToChars(node.line) \o <<":">>
                         \o IntToChars(node.column))],
                     None)
        ELSE IF definition # NoSymbol
        THEN Visited(RecordReference(sa, node.name,
                                     Location(node.line, node.column), definition),
                     None)
        ELSE Visited(sa, None)

\* self.errors.append(message)
SemanticAnalyzer_error(sa, message) == [sa EXCEPT !.errors = Append(@, message)]

\* f"{line}:{column}"
LocationChars(line, column) == IntToChars(line) \o <<":">> \o IntToChars(column)

RECURSIVE SemanticAnalyzer_accept(_, _)

\* a loop "for child in children: child.accept(self)"
RECURSIVE SemanticAnalyzer_accept_all(_, _)
SemanticAnalyzer_accept_all(sa, nodes) ==
    IF nodes = <<>> THEN sa
    ELSE SemanticAnalyzer_accept_all(SemanticAnalyzer_accept(sa, Head(nodes)).walker,
                                     Tail(nodes))

SemanticAnalyzer_visit_parameter(sa, node) ==
    LET recorded == RecordDefinition(sa, node.name.name, <<"p","a","r","a","m","e","t","e","r">>,
                        Location(node.name.line, node.name.column),
                        node.type_annotation, <<>>)
    IN  Visited([recorded EXCEPT !.heap = Define(@, recorded.symbol_table,
                     VariableSymbol(node.name.name, node.type_annotation))],
                None)

SemanticAnalyzer_visit_variable_declaration(sa, node) ==
    LET var_type == IF node.type_annotation \in {NoAnnotation, <<>>}
                    THEN <<"i","n","f","e","r","r","e","d">> ELSE node.type_annotation
        recorded == RecordDefinition(sa, node.name.name, <<"v","a","r","i","a","b","l","e">>,
                        Location(node.line, node.column), var_type, <<>>)
        declared ==
            IF ContainsLocal(recorded.heap, recorded.symbol_table, node.name.name)
            THEN SemanticAnalyzer_error(recorded,
                     <<"V","a","r","i","a","b","l","e"," ","'">> \o node.name.name \o <<"'"," ","i","s"," ","a","l","r","e","a","d","y"," ","d","e","f","i","n","e","d"," ","a","t"," ">>
                     \o LocationChars(node.line, node.column))
            ELSE [recorded EXCEPT !.heap = Define(@, recorded.symbol_table,
                      VariableSymbol(node.name.name, var_type))]
    IN  IF node.initializer # NoNode
        THEN Visited(SemanticAnalyzer_accept(declared, node.initializer).walker, None)
        ELSE Visited(declared, None)

(***************************************************************************)
(* Node.accept for the semantic analyzer, for expressions, parameters and  *)
(* the statements that hold no other statement.                            *)
(***************************************************************************)
SemanticAnalyzer_accept(sa, node) ==
    CASE node.kind = "Identifier" -> SemanticAnalyzer_visit_identifier(sa, node)
      [] node.kind = "IntegerLiteral" -> Visited(sa, None)
      [] node.kind = "FloatLiteral" -> Visited(sa, None)
      [] node.kind = "StringLiteral" -> Visited(sa, None)
      [] node.kind = "BooleanLiteral" -> Visited(sa, None)
      [] node.kind = "BinaryExpression" ->
            Visited(SemanticAnalyzer_accept_all(sa, <<node.left, node.right>>), None)
      [] node.kind = "UnaryExpression" ->
            Visited(SemanticAnalyzer_accept(sa, node.right).walker, None)
      [] node.kind = "CallExpression" ->
            Visited(SemanticAnalyzer_accept_all(sa, <<node.callee>> \o node.arguments),
                    None)
      [] node.kind = "AssignmentExpression" ->
            Visited(SemanticAnalyzer_accept_all(sa, <<node.target, node.value>>), None)
      [] node.kind = "ArrayLiteral" ->
            Visited(SemanticAnalyzer_accept_all(sa, node.elements), None)
      [] node.kind = "Parameter" -> SemanticAnalyzer_visit_parameter(sa, node)
      [] node.kind = "VariableDeclaration" ->
            SemanticAnalyzer_visit_variable_declaration(sa, node)
      [] node.kind = "ReturnStatement" ->
            IF node.value # NoNode
            THEN Visited(SemanticAnalyzer_accept(sa, node.value).walker, None)
            ELSE Visited(sa, None)
      [] node.kind = "ExpressionStatement" ->
            Visited(SemanticAnalyzer_accept(sa, node.expression).walker, None)

\* the loop of SemanticAnalyzer.visit_program
RECURSIVE SemanticAnalyzer_visit_statements(_, _)
SemanticAnalyzer_visit_statements(sa, stmts) ==
    IF stmts = <<>> THEN sa
    ELSE SemanticAnalyzer_visit_statements(
             SemanticAnalyzer_accept(sa, Head(stmts)).walker, Tail(stmts))

\* SemanticAnalyzer.analyze: the analyzer after the walk; the SemanticInfo
\* returned is its definitions, references and errors
SemanticAnalyzer_analyze(sa, program) == SemanticAnalyzer_visit_statements(sa, program.statements)

(***************************************************************************)
(* semantic_analyzer.py annotates its methods with Any, a name the module  *)
(* never binds.  An interpreter that evaluates annotations when the class  *)
(* body runs raises NameError on import; one that evaluates them lazily    *)
(* imports the module.  setup.py admits both (python_requires >= 3.8).     *)
(***************************************************************************)
ImportOutcomes == {"no", "NameError"}

(***************************************************************************)
(* The pipeline of _analyze_document after the parse: the type checker,    *)
(* then the semantic analyzer, each freshly constructed and run on the     *)
(* Program that parse returned.                                            *)
(***************************************************************************)
CheckTypes ==
    /\ parpc = "done"
    /\ type_checker' = TypeChecker_check(NewTypeChecker, Program(statements))
    /\ parpc' = "checked"
    /\ UNCHANGED <<parser, statements, semantic_analyzer>>
    /\ UNCHANGED <<lexVars, symVars, walkVars, srvVars>>

AnalyzeSemantics ==
    /\ parpc = "checked"
    /\ \E raised \in ImportOutcomes :
          semantic_analyzer' =
              IF raised = "no" THEN SemanticAnalyzer_analyze(NewSemanticAnalyzer,
                                                            Program(statements))
              ELSE [semantic_analyzer EXCEPT !.raised = raised]
    /\ parpc' = "analyzed"
    /\ UNCHANGED <<parser, statements, type_checker>>
    /\ UNCHANGED <<lexVars, symVars, walkVars, srvVars>>

NextParser ==
    \/ ParseStatement
    \/ ParseRecover
    \/ ParseReturn
    \/ CheckTypes
    \/ AnalyzeSemantics

SpecParser == InitParser /\ [][NextParser]_vars

(***************************************************************************)
(* Compound statements.  The statements held by a FunctionDeclaration, a   *)
(* BlockStatement, an IfStatement, a WhileStatement or a ForStatement are  *)
(* not fields of its node here: they are the statements walked between the *)
(* moment its visit method is entered and the moment it returns.  A visit  *)
(* that has not returned is a frame: its node, the locals previous_scope   *)
(* and previous_function of each walker, and the number of child           *)
(* statements still to visit (ListBody for a body that is a list).         *)
(***************************************************************************)
FunctionDeclaration(name, parameters, return_type, line, column) ==
    [kind |-> "FunctionDeclaration", name |-> name, parameters |-> parameters,
     return_type |-> return_type, line |-> line, column |-> column]

BlockStatement(line, column) ==
    [kind |-> "BlockStatement", line |-> line, column |-> column]

IfStatement(condition, has_else, line, column) ==
    [kind |-> "IfStatement", condition |-> condition, has_else |-> has_else,
     line |-> line, column |-> column]

WhileStatement(condition, line, column) ==
    [kind |-> "WhileStatement", condition |-> condition, line |-> line,
     column |-> column]

ForStatement(initializer, condition, increment, line, column) ==
    [kind |-> "ForStatement", initializer |-> initializer,
     condition |-> condition, increment |-> increment, line |-> line,
     column |-> column]

ListBody == 0 - 1

\* the value of a visit that returns no type
NoType == <<>>

\* the symbols made from the parameters of a FunctionDeclaration
ParameterSymbols(parameters) ==
    [i \in 1..Len(parameters) |->
        VariableSymbol(parameters[i].name.name, parameters[i].type_annotation)]

\* define called with each symbol in turn
RECURSIVE DefineAll(_, _, _)
DefineAll(heap, s, symbols) ==
    IF symbols = <<>> THEN heap
    ELSE DefineAll(Define(heap, s, Head(symbols)), s, Tail(symbols))

\* a declaration that becomes the current function only when it was defined
TypeChecker_enter_function_if_defined(tc, node) ==
    LET name == node.name.name
        defined == ~ContainsLocal(tc.heap, tc.symbol_table, name)
        func_symbol ==
            FunctionSymbol(name, node.return_type,
                           ParameterSymbols(node.parameters), FALSE)
        tc1 == IF defined
               THEN [tc EXCEPT !.heap = Define(@, tc.symbol_table, func_symbol)]
               ELSE TypeChecker_error(tc,
                        <<"F","u","n","c","t","i","o","n"," ","'">> \o name
                        \o <<"'"," ","i","s"," ","a","l","r","e","a","d","y"," ","d","e","f","i","n","e","d"," ","i","n"," ","t","h","i","s"," ","s","c","o","p","e">>,
                        node.line, node.column)
        scoped == CreateChildScope(tc1.heap, tc1.symbol_table, name)
    IN  [tc1 EXCEPT !.heap = DefineAll(scoped, Len(scoped),
                                       ParameterSymbols(node.parameters)),
                    !.symbol_table = Len(scoped),
                    !.current_function = IF defined THEN func_symbol ELSE @]

(***************************************************************************)
(* TypeChecker.visit_function_declaration up to the loop over the body.    *)
(* func_symbol is one object: the parameters appended to it show in the    *)
(* binding of the enclosing scope (when it was defined there) and in       *)
(* current_function.                                                       *)
(***************************************************************************)
TypeChecker_enter_function(tc, node) ==
    LET name == node.name.name
        defined == ~ContainsLocal(tc.heap, tc.symbol_table, name)
        func_symbol ==
            FunctionSymbol(name, node.return_type,
                           ParameterSymbols(node.parameters), FALSE)
        tc1 == IF defined
               THEN [tc EXCEPT !.heap = Define(@, tc.symbol_table, func_symbol)]
               ELSE TypeChecker_error(tc,
                        <<"F","u","n","c","t","i","o","n"," ","'">> \o name
                        \o <<"'"," ","i","s"," ","a","l","r","e","a","d","y"," ","d","e","f","i","n","e","d"," ","i","n"," ","t","h","i","s"," ","s","c","o","p","e">>,
                        node.line, node.column)
        scoped == CreateChildScope(tc1.heap, tc1.symbol_table, name)
    IN  [tc1 EXCEPT !.heap = DefineAll(scoped, Len(scoped),
                                       ParameterSymbols(node.parameters)),
                    !.symbol_table = Len(scoped),
                    !.current_function = func_symbol]

\* a function declaration that returns without restoring current_function
TypeChecker_leave_function_scope_only(tc, frame) ==
    [tc EXCEPT !.symbol_table = frame.tc_scope]

\* the end of visit_function_declaration: scope and function are restored
TypeChecker_leave_function(tc, frame) ==
    [tc EXCEPT !.symbol_table = frame.tc_scope,
               !.current_function = frame.tc_function]

\* visit_block_statement and visit_for_statement: the new scope is entered
TypeChecker_enter_scope(tc) ==
    [tc EXCEPT !.heap = CreateChildScope(@, tc.symbol_table, <<>>),
               !.symbol_table = Len(tc.heap) + 1]

\* a block or for statement that returns without restoring the scope
TypeChecker_keep_scope(tc, frame) == tc

\* the end of visit_block_statement and visit_for_statement
TypeChecker_leave_scope(tc, frame) == [tc EXCEPT !.symbol_table = frame.tc_scope]

\* a condition that is visited and never tested
TypeChecker_visit_condition(tc, condition, construct) ==
    TypeChecker_accept(tc, condition).walker

\* the condition check of visit_if_statement, visit_while_statement and
\* visit_for_statement; construct is "If", "While" or "For"
TypeChecker_check_condition(tc, condition, construct) ==
    LET cond == TypeChecker_accept(tc, condition)
        condition_type == cond.value
    IN  IF condition_type # BooleanType
        THEN TypeChecker_error(cond.walker,
                 construct \o <<" ","c","o","n","d","i","t","i","o","n"," ","m","u","s","t"," ","b","e"," ","a"," ","B","o","o","l","e","a","n",","," ","g","o","t"," ","'">>
                 \o condition_type \o <<"'">>,
                 condition.line, condition.column)
        ELSE cond.walker

\* visit_for_statement up to the visit of the body
TypeChecker_enter_for(tc, node) ==
    LET scoped == TypeChecker_enter_scope(tc)
        initialized == IF node.initializer # NoNode
                       THEN TypeChecker_accept(scoped, node.initializer).walker
                       ELSE scoped
        conditioned == IF node.condition # NoNode
                       THEN TypeChecker_check_condition(initialized,
                                                        node.condition, <<"F","o","r">>)
                       ELSE initialized
    IN  IF node.increment # NoNode
        THEN TypeChecker_accept(conditioned, node.increment).walker
        ELSE conditioned

\* ', '.join(strings)
RECURSIVE JoinChars(_)
JoinChars(strings) ==
    IF strings = <<>> THEN <<>>
    ELSE IF Len(strings) = 1 THEN strings[1]
    ELSE strings[1] \o <<","," ">> \o JoinChars(Tail(strings))

\* SemanticAnalyzer._format_function_signature
FormatFunctionSignature(node) ==
    <<"f","u","n","c","t","i","o","n"," ">> \o node.name.name \o <<"(">>
    \o JoinChars([i \in 1..Len(node.parameters) |->
                     node.parameters[i].name.name \o <<":"," ">>
                     \o node.parameters[i].type_annotation])
    \o <<")"," ","-",">"," ">> \o node.return_type

\* the parameters that resolve_local finds after each param.accept
RECURSIVE SemanticAnalyzer_parameters(_, _)
SemanticAnalyzer_parameters(sa, parameters) ==
    IF parameters = <<>> THEN [walker |-> sa, symbols |-> <<>>]
    ELSE LET visited == SemanticAnalyzer_accept(sa, Head(parameters)).walker
             param_symbol == ResolveLocal(visited.heap, visited.symbol_table,
                                          Head(parameters).name.name)
             rest == SemanticAnalyzer_parameters(visited, Tail(parameters))
         IN  [walker |-> rest.walker,
              symbols |-> IF param_symbol # NoSymbol
                          THEN <<param_symbol>> \o rest.symbols
                          ELSE rest.symbols]

(***************************************************************************)
(* SemanticAnalyzer.visit_function_declaration up to the loop over the     *)
(* body; func_symbol is one object, as in the type checker.                *)
(***************************************************************************)
SemanticAnalyzer_enter_function(sa, node) ==
    LET name == node.name.name
        recorded == RecordDefinition(sa, name, <<"f","u","n","c","t","i","o","n">>,
                        Location(node.line, node.column), node.return_type,
                        FormatFunctionSignature(node))
        defined == ~ContainsLocal(recorded.heap, recorded.symbol_table, name)
        func_symbol == FunctionSymbol(name, node.return_type, <<>>, FALSE)
        sa1 == IF defined
               THEN [recorded EXCEPT !.heap = Define(@, sa.symbol_table, func_symbol)]
               ELSE SemanticAnalyzer_error(recorded,
                        <<"F","u","n","c","t","i","o","n"," ","'">> \o name \o <<"'"," ","i","s"," ","a","l","r","e","a","d","y"," ","d","e","f","i","n","e","d"," ","a","t"," ">>
                        \o LocationChars(node.line, node.column))
        scoped == [sa1 EXCEPT !.heap = CreateChildScope(@, sa1.symbol_table, name),
                              !.symbol_table = Len(sa1.heap) + 1]
        params == SemanticAnalyzer_parameters(scoped, node.parameters)
        full == [func_symbol EXCEPT !.parameters = params.symbols]
    IN  [params.walker EXCEPT
            !.heap = IF defined
                     THEN [@ EXCEPT ![sa.symbol_table].symbols[name] = full]
                     ELSE @,
            !.current_function = full]

SemanticAnalyzer_leave_function(sa, frame) ==
    [sa EXCEPT !.symbol_table = frame.sa_scope,
               !.current_function = frame.sa_function]

SemanticAnalyzer_enter_scope(sa) ==
    [sa EXCEPT !.heap = CreateChildScope(@, sa.symbol_table, <<>>),
               !.symbol_table = Len(sa.heap) + 1]

SemanticAnalyzer_leave_scope(sa, frame) == [sa EXCEPT !.symbol_table = frame.sa_scope]

\* visit_for_statement up to the visit of the body
SemanticAnalyzer_enter_for(sa, node) ==
    SemanticAnalyzer_accept_all(SemanticAnalyzer_enter_scope(sa),
        SelectSeq(<<node.initializer, node.condition, node.increment>>,
                  LAMBDA child : child # NoNode))

(***************************************************************************)
(* The language server (lsp/server.py).  A handler is a coroutine that     *)
(* never suspends before it returns, so one action is one whole handler.   *)
(* The server is that of an interpreter on which its modules import.  A    *)
(* dict is the function on its keys; LSP objects are records.              *)
(***************************************************************************)
\* Parser.parse in one piece: the parser after the loop and the statements
RECURSIVE ParseLoop(_, _)
ParseLoop(p, stmts) ==
    IF IsAtEnd(p) THEN [parser |-> p, statements |-> stmts]
    ELSE LET r == Declaration(p)
         IN  IF r.raised
             THEN ParseLoop(Synchronize([r.p EXCEPT !.errors = Append(@, r.error)]),
                            stmts)
             ELSE ParseLoop(r.p, Append(stmts, r.node))

Parse(src) == ParseLoop(NewParser(src), <<>>)

\* s[i:i+len(sep)] == sep, with i counted from 1
MatchesAt(s, i, sep) ==
    /\ i + Len(sep) - 1 <= Len(s)
    /\ SubSeq(s, i, i + Len(sep) - 1) = sep

\* str.split(sep): the parts between the occurrences of sep, left to right
RECURSIVE Split(_, _)
Split(s, sep) ==
    LET found == {i \in 1..Len(s) : MatchesAt(s, i, sep)}
    IN  IF found = {} THEN <<s>>
        ELSE LET i == SetMin(found)
             IN  <<SubSeq(s, 1, i - 1)>>
                 \o Split(SubSeq(s, i + Len(sep), Len(s)), sep)

\* str.strip() of the whitespace int() ignores
RECURSIVE Strip(_)
Strip(s) ==
    IF s = <<>> THEN s
    ELSE IF IsSpace(s[1]) THEN Strip(Tail(s))
    ELSE IF IsSpace(s[Len(s)]) THEN Strip(SubSeq(s, 1, Len(s) - 1))
    ELSE s

\* int(s): the value, or ValueError.  A sign and surrounding whitespace are
\* accepted; underscores between digits are not modelled.
ParseInt(s) ==
    LET stripped == Strip(s)
        signed == stripped # <<>> /\ stripped[1] \in {"+", "-"}
        digits == IF signed THEN Tail(stripped) ELSE stripped
    IN  IF digits = <<>> \/ \E i \in DOMAIN digits : ~IsDigit(digits[i])
        THEN [raised |-> TRUE, value |-> 0]
        ELSE [raised |-> FALSE,
              value |-> IF signed /\ stripped[1] = "-" THEN 0 - IntValue(digits)
                        ELSE IntValue(digits)]

Position(line, character) == [line |-> line, character |-> character]

Range(start, end) == [start |-> start, end |-> end]

Diagnostic(range, message, severity, source) ==
    [range |-> range, message |-> message, severity |-> severity,
     source |-> source]

SemanticSource ==
    <<"a","e","t","h","e","r","s","c","r","i","p","t","-","s","e","m","a","n","t","i","c","-","a","n","a","l","y","z","e","r">>

\* the fallback of _analyze_document: the whole text at the start of the file
GenericDiagnostic(error) ==
    <<Diagnostic(Range(Position(0, 0), Position(0, 1)), error, "Warning",
                 SemanticSource)>>

\* diagnostics that keep the 1-based line and column of the analyzer
SemanticDiagnosticsOneBased(error) ==
    LET parts == Split(error, <<" ","a","t"," ">>)
        location_parts == Split(parts[Len(parts)], <<":">>)
        line == ParseInt(location_parts[1])
        column == ParseInt(location_parts[2])
    IN  IF Len(parts) >= 2
        THEN IF Len(location_parts) >= 2
             THEN IF line.raised \/ column.raised
                  THEN GenericDiagnostic(error)
                  ELSE <<Diagnostic(Range(Position(line.value, column.value),
                                          Position(line.value, column.value + 1)),
                                    parts[1], "Warning", SemanticSource)>>
             ELSE <<>>
        ELSE GenericDiagnostic(error)

\* the diagnostics _analyze_document appends for one semantic error
SemanticDiagnostics(error) ==
    LET parts == Split(error, <<" ","a","t"," ">>)
        location_parts == Split(parts[Len(parts)], <<":">>)
        line == ParseInt(location_parts[1])
        column == ParseInt(location_parts[2])
    IN  IF Len(parts) >= 2
        THEN IF Len(location_parts) >= 2
             THEN IF line.raised \/ column.raised
                  THEN GenericDiagnostic(error)
                  ELSE <<Diagnostic(Range(Position(line.value - 1, column.value - 1),
                                          Position(line.value - 1, column.value)),
                                    parts[1], "Warning", SemanticSource)>>
             ELSE <<>>
        ELSE GenericDiagnostic(error)

\* the message of a ParseError stays the text and the value put in it
ParseDiagnostic(error) ==
    Diagnostic(Range(Position(error.token.line - 1, error.token.column - 1),
                     Position(error.token.line - 1,
                              error.token.column - 1 + Len(error.token.value))),
               error.message, "Error",
               <<"a","e","t","h","e","r","s","c","r","i","p","t","-","p","a","r","s","e","r">>)

TypeDiagnostic(error) ==
    Diagnostic(Range(Position(error.line - 1, error.column - 1),
                     Position(error.line - 1, error.column)),
               error.message, "Error",
               <<"a","e","t","h","e","r","s","c","r","i","p","t","-","t","y","p","e","-","c","h","e","c","k","e","r">>)

\* the list `diagnostics` of _analyze_document
Diagnostics(parse_errors, type_errors, semantic_errors) ==
    [i \in DOMAIN parse_errors |-> ParseDiagnostic(parse_errors[i])]
    \o [i \in DOMAIN type_errors |-> TypeDiagnostic(type_errors[i])]
    \o Concat([i \in DOMAIN semantic_errors |->
                  SemanticDiagnostics(semantic_errors[i])])

\* an _analyze_document that goes on with the analyzers stored for the URI
AnalyzeDocumentReusingAnalyzers(srv, uri, text) ==
    LET parsed == Parse(text)
        ast == Program(parsed.statements)
        type_checker_ == TypeChecker_check(
                             IF uri \in DOMAIN srv.type_checkers
                             THEN srv.type_checkers[uri] ELSE NewTypeChecker, ast)
        semantic_analyzer_ == SemanticAnalyzer_analyze(
                                  IF uri \in DOMAIN srv.semantic_analyzers
                                  THEN srv.semantic_analyzers[uri]
                                  ELSE NewSemanticAnalyzer, ast)
    IN  [server |-> [srv EXCEPT
                        !.parsers = DictPut(@, uri, parsed.parser),
                        !.type_checkers = DictPut(@, uri, type_checker_),
                        !.semantic_analyzers = DictPut(@, uri, semantic_analyzer_)],
         published |-> TRUE,
         diagnostics |-> Diagnostics(parsed.parser.errors, type_checker_.errors,
                                     semantic_analyzer_.errors)]

\* _analyze_document: the server after it and the diagnostics it publishes;
\* a handler that does not call it publishes nothing
AnalyzeDocument(srv, uri, text) ==
    LET parsed == Parse(text)
        ast == Program(parsed.statements)
        type_checker_ == TypeChecker_check(NewTypeChecker, ast)
        semantic_analyzer_ == SemanticAnalyzer_analyze(NewSemanticAnalyzer, ast)
    IN  [server |-> [srv EXCEPT
                        !.parsers = DictPut(@, uri, parsed.parser),
                        !.type_checkers = DictPut(@, uri, type_checker_),
                        !.semantic_analyzers = DictPut(@, uri, semantic_analyzer_)],
         published |-> TRUE,
         diagnostics |-> Diagnostics(parsed.parser.errors, type_checker_.errors,
                                     semantic_analyzer_.errors)]

\* on_did_open
DidOpenDocument(srv, uri, text) ==
    AnalyzeDocument([srv EXCEPT !.document_cache = DictPut(@, uri, text)], uri, text)

\* an on_did_change that caches the text and leaves the analysis to on_did_save
DidChangeCacheOnly(srv, uri, content_changes) ==
    IF Len(content_changes) > 0
    THEN [server |-> [srv EXCEPT !.document_cache =
                                    DictPut(@, uri, content_changes[1])],
          published |-> FALSE, diagnostics |-> <<>>]
    ELSE [server |-> srv, published |-> FALSE, diagnostics |-> <<>>]

\* on_did_change
DidChangeDocument(srv, uri, content_changes) ==
    IF Len(content_changes) > 0
    THEN AnalyzeDocument([srv EXCEPT !.document_cache =
                                        DictPut(@, uri, content_changes[1])],
                         uri, content_changes[1])
    ELSE [server |-> srv, published |-> FALSE, diagnostics |-> <<>>]

\* on_did_save
DidSaveDocument(srv, uri) ==
    IF uri \in DOMAIN srv.document_cache
    THEN AnalyzeDocument(srv, uri, srv.document_cache[uri])
    ELSE [server |-> srv, published |-> FALSE, diagnostics |-> <<>>]

\* str.isalnum() or '_'
IsWordChar(c) == IsAlnum(c) \/ c = "_"

\* lines[line] if line < len(lines) else ""
CurrentLine(text, line) ==
    LET lines == Split(text, <<"\n">>)
    IN  IF line < Len(lines) THEN lines[line + 1] ELSE <<>>

(***************************************************************************)
(* The first loop of the word search.  current_line[word_start - 1] is an  *)
(* IndexError when word_start - 1 is not an index of the line; the loop    *)
(* gives the start of the word, or -1 when the error is raised.            *)
(***************************************************************************)
RECURSIVE WordStart(_, _)
WordStart(current_line, word_start) ==
    IF word_start > 0
    THEN IF word_start - 1 >= Len(current_line) THEN 0 - 1
         ELSE IF IsWordChar(current_line[word_start])
         THEN WordStart(current_line, word_start - 1)
         ELSE word_start
    ELSE word_start

RECURSIVE WordEnd(_, _)
WordEnd(current_line, word_end) ==
    IF word_end < Len(current_line) /\ IsWordChar(current_line[word_end + 1])
    THEN WordEnd(current_line, word_end + 1)
    ELSE word_end

\* current_line[word_start:word_end] for 0 <= word_start
Slice(current_line, word_start, word_end) ==
    SubSeq(current_line, word_start + 1,
           IF word_end > Len(current_line) THEN Len(current_line) ELSE word_end)

\* the word under the cursor, as on_hover, on_definition and on_references
\* find it
WordAt(text, line, character) ==
    LET current_line == CurrentLine(text, line)
        word_start == WordStart(current_line, character)
        word_end == WordEnd(current_line, character)
    IN  IF word_start < 0
        THEN [raised |-> TRUE, word |-> <<>>, word_start |-> 0, word_end |-> 0]
        ELSE [raised |-> FALSE,
              word |-> Slice(current_line, word_start, word_end),
              word_start |-> word_start, word_end |-> word_end]

\* None where Python has a str
NoString == <<None>>

\* hover information that always ends with the detail line
FindHoverInfoWithDetailLine(sa, name, location) ==
    LET definition == FindDefinition(sa, name, location)
    IN  IF definition = NoSymbol THEN NoString
        ELSE definition.kind \o <<" ">> \o definition.name \o <<":"," ">>
             \o definition.type_name \o <<"\n">> \o definition.detail

\* SemanticAnalyzer.find_hover_info
FindHoverInfo(sa, name, location) ==
    LET definition == FindDefinition(sa, name, location)
    IN  IF definition = NoSymbol THEN NoString
        ELSE IF definition.detail # <<>>
        THEN definition.kind \o <<" ">> \o definition.name \o <<":"," ">>
             \o definition.type_name \o <<"\n">> \o definition.detail
        ELSE definition.kind \o <<" ">> \o definition.name \o <<":"," ">>
             \o definition.type_name

\* SemanticAnalyzer.find_all_references
FindAllReferences(sa, name, def_location) ==
    SelectSeq(sa.references,
              LAMBDA ref : /\ ref.name = name
                           /\ ref.definition.location.line = def_location.line
                           /\ ref.definition.location.column = def_location.column)

LspLocation(uri, range) == [uri |-> uri, range |-> range]

\* the range the server gives to a name at a core location
NameRange(location, name) ==
    Range(Position(location.line - 1, location.column - 1),
          Position(location.line - 1, location.column - 1 + Len(name)))

\* what a request returns: the kind of the value and the value
Response(outcome, result) == [outcome |-> outcome, result |-> result]

\* the start of the three position requests: the analyzer and the word
Cursor(srv, uri, line, character) ==
    IF uri \notin DOMAIN srv.document_cache THEN [found |-> "nothing"]
    ELSE IF uri \notin DOMAIN srv.semantic_analyzers THEN [found |-> "nothing"]
    ELSE LET at == WordAt(srv.document_cache[uri], line, character)
         IN  IF at.raised THEN [found |-> "IndexError"]
             ELSE IF at.word = <<>> THEN [found |-> "nothing"]
             ELSE [found |-> "word", at |-> at,
                   semantic_analyzer |-> srv.semantic_analyzers[uri]]

\* the three grave accents of a Markdown code fence; the character cannot be
\* written in a string here and is spelled out
Fence == <<"GRAVE", "GRAVE", "GRAVE">>

\* on_hover
OnHover(srv, uri, line, character) ==
    LET cursor == Cursor(srv, uri, line, character)
        hover_info == FindHoverInfo(cursor.semantic_analyzer, cursor.at.word,
                                    Location(line + 1, character + 1))
    IN  IF cursor.found = "IndexError" THEN Response("IndexError", <<>>)
        ELSE IF cursor.found = "nothing" THEN Response("None", <<>>)
        ELSE IF hover_info # NoString /\ hover_info # <<>>
        THEN Response("Hover",
                 <<[contents |->
                       [kind |-> "markdown",
                        value |-> Fence \o <<"a","e","t","h","e","r","s","c","r","i","p","t","\n">>
                                  \o hover_info \o <<"\n">> \o Fence],
                    range |-> Range(Position(line, cursor.at.word_start),
                                    Position(line, cursor.at.word_end))]>>)
        ELSE Response("None", <<>>)

\* on_definition
OnDefinition(srv, uri, line, character) ==
    LET cursor == Cursor(srv, uri, line, character)
        definition == FindDefinition(cursor.semantic_analyzer, cursor.at.word,
                                     Location(line + 1, character + 1))
    IN  IF cursor.found = "IndexError" THEN Response("IndexError", <<>>)
        ELSE IF cursor.found = "nothing" THEN Response("None", <<>>)
        ELSE IF definition # NoSymbol
        THEN Response("Location",
                      <<LspLocation(uri, NameRange(definition.location,
                                                   cursor.at.word))>>)
        ELSE Response("None", <<>>)

\* on_references
OnReferences(srv, uri, line, character) ==
    LET cursor == Cursor(srv, uri, line, character)
        definition == FindDefinition(cursor.semantic_analyzer, cursor.at.word,
                                     Location(line + 1, character + 1))
        references == FindAllReferences(cursor.semantic_analyzer, cursor.at.word,
                                        definition.location)
    IN  IF cursor.found = "IndexError" THEN Response("IndexError", <<>>)
        ELSE IF cursor.found = "nothing" THEN Response("list", <<>>)
        ELSE IF definition = NoSymbol THEN Response("list", <<>>)
        ELSE Response("list",
                 [i \in DOMAIN references |->
                     LspLocation(uri, NameRange(references[i].location,
                                                cursor.at.word))])

\* the keys of a dict one after the other; a function keeps no order of
\* insertion, so the order of the keys in the list is not Python's
RECURSIVE Keys(_)
Keys(S) ==
    IF S = {} THEN <<>>
    ELSE LET key == CHOOSE k \in S : TRUE IN <<key>> \o Keys(S \ {key})

SymbolKind(definition) ==
    IF definition.kind = <<"f","u","n","c","t","i","o","n">> THEN "Function"
    ELSE IF definition.kind = <<"v","a","r","i","a","b","l","e">> THEN "Variable"
    ELSE IF definition.kind = <<"p","a","r","a","m","e","t","e","r">> THEN "Variable"
    ELSE "String"

\* the SymbolInformation objects of the definitions of one analyzer
SymbolsOf(uri, sa, names) ==
    Concat([k \in DOMAIN names |->
               [i \in DOMAIN sa.definitions[names[k]] |->
                   LET definition == sa.definitions[names[k]][i]
                   IN  [name |-> names[k], kind |-> SymbolKind(definition),
                        location |-> LspLocation(uri,
                                         NameRange(definition.location, names[k])),
                        container_name |-> definition.kind]]])

\* on_document_symbol
OnDocumentSymbol(srv, uri) ==
    IF uri \notin DOMAIN srv.document_cache THEN Response("list", <<>>)
    ELSE IF uri \notin DOMAIN srv.semantic_analyzers THEN Response("list", <<>>)
    ELSE Response("list",
                  SymbolsOf(uri, srv.semantic_analyzers[uri],
                            Keys(DOMAIN srv.semantic_analyzers[uri].definitions)))

UpperCase == <<"A","B","C","D","E","F","G","H","I","J","K","L","M","N","O","P","Q","R","S","T","U","V","W","X","Y","Z">>

LowerCase == <<"a","b","c","d","e","f","g","h","i","j","k","l","m","n","o","p","q","r","s","t","u","v","w","x","y","z">>

\* str.lower(), restricted to ASCII
Lower(s) ==
    [i \in DOMAIN s |->
        IF \E k \in DOMAIN UpperCase : UpperCase[k] = s[i]
        THEN LowerCase[CHOOSE k \in DOMAIN UpperCase : UpperCase[k] = s[i]]
        ELSE s[i]]

\* query in name
IsIn(query, name) == query = <<>> \/ \E i \in 1..Len(name) : MatchesAt(name, i, query)

\* on_workspace_symbol
OnWorkspaceSymbol(srv, query) ==
    LET uris == Keys(DOMAIN srv.semantic_analyzers)
    IN  Response("list",
            Concat([u \in DOMAIN uris |->
                       LET sa == srv.semantic_analyzers[uris[u]]
                       IN  SymbolsOf(uris[u], sa,
                               SelectSeq(Keys(DOMAIN sa.definitions),
                                         LAMBDA name :
                                            ~(Lower(query) # <<>>
                                              /\ ~IsIn(Lower(query), Lower(name)))))]))

(***************************************************************************)
(* The programs walked: statements come one per line, a declaration or a   *)
(* compound statement at column 1, an expression statement where its       *)
(* expression stands.                                                      *)
(***************************************************************************)
NameX == <<"x">>

NameF == <<"f">>

NameU == <<"u">>

WalkNames == {NameX, NameF, PrintName}

IntegerAt(line, column) == Literal("IntegerLiteral", 1, line, column)

FloatAt(line, column) == Literal("FloatLiteral", [num |-> 3, den |-> 2], line, column)

StringAt(line, column) == Literal("StringLiteral", <<"s">>, line, column)

BooleanAt(line, column) == BooleanLiteral(TRUE, line, column)

\* the expressions the walk visits as expression statements
StatementExpressions(line) ==
    <<IdentifierNode(NameX, line, 1),
      CallExpression(IdentifierNode(NameF, line, 1), <<IntegerAt(line, 3)>>, line, 2),
      AssignmentExpression(IdentifierNode(NameX, line, 11), StringAt(line, 15),
                           line, 13)>>

\* the statements without child statements that the walk visits
SimpleStatements(line) ==
    [i \in DOMAIN StatementExpressions(line) |->
        ExpressionStatementNode(StatementExpressions(line)[i], line,
                                StatementExpressions(line)[i].column)]
    \o  <<VariableDeclaration(IdentifierNode(NameX, line, 5), NoAnnotation,
                              StringAt(line, 9), line, 1),
          VariableDeclaration(IdentifierNode(NameX, line, 5), IntType,
                              StringAt(line, 14), line, 1),
          VariableDeclaration(IdentifierNode(NameX, line, 5), NoAnnotation,
                              IdentifierNode(NameX, line, 9), line, 1),
          ReturnStatement(NoNode, line, 1),
          ReturnStatement(IntegerAt(line, 8), line, 1)>>

FunctionDeclarations(line) ==
    <<FunctionDeclaration(IdentifierNode(NameF, line, 10),
                          <<Parameter(IdentifierNode(NameX, line, 12), IntType)>>,
                          IntType, line, 1),
      FunctionDeclaration(IdentifierNode(NameX, line, 10), <<>>, VoidType, line, 1)>>

IfStatements(line) ==
    <<IfStatement(IntegerAt(line, 5), TRUE, line, 1),
      IfStatement(BooleanAt(line, 5), FALSE, line, 1)>>

WhileStatements(line) ==
    <<WhileStatement(BooleanAt(line, 8), line, 1),
      WhileStatement(IntegerAt(line, 8), line, 1)>>

ForStatements(line) ==
    <<ForStatement(VariableDeclaration(IdentifierNode(NameX, line, 10), IntType,
                                       IntegerAt(line, 19), line, 6),
                   IdentifierNode(NameX, line, 22),
                   AssignmentExpression(IdentifierNode(NameX, line, 25),
                                        IntegerAt(line, 29), line, 27),
                   line, 1),
      ForStatement(NoNode, BooleanAt(line, 7), NoNode, line, 1)>>

(***************************************************************************)
(* The walk of a hand-built program by both walkers.  check(program) and   *)
(* analyze(program) are two walks of the same program that share nothing;  *)
(* the model advances them together, node by node, so a state pairs the    *)
(* type checker and the semantic analyzer at the same point of the         *)
(* program.  The semantic analyzer is that of an interpreter on which its  *)
(* module imports.                                                         *)
(***************************************************************************)
\* what each name resolves to from the walker's current scope
Visible(walker) ==
    [n \in WalkNames |-> Resolve(walker.heap, walker.symbol_table, n)]

\* the frame of a visit that starts with the walkers tc and sa
Frame(node, pending, tc, sa) ==
    [node |-> node, pending |-> pending,
     tc_scope |-> tc.symbol_table, tc_function |-> tc.current_function,
     sa_scope |-> sa.symbol_table, sa_function |-> sa.current_function,
     tc_visible |-> Visible(tc), sa_visible |-> Visible(sa)]

Walking(tc, sa, fs) == [tc |-> tc, sa |-> sa, frames |-> fs]

(***************************************************************************)
(* A statement has returned to the visit that holds it: a function or a    *)
(* block goes on with its loop, an if, a while or a for has one child      *)
(* statement less to visit.                                                *)
(***************************************************************************)
StatementReturned(w) ==
    IF w.frames = <<>> THEN w
    ELSE IF w.frames[Len(w.frames)].pending = ListBody THEN w
    ELSE [w EXCEPT !.frames[Len(w.frames)].pending = @ - 1]

\* the variables after a step of the walk
WalkStep(w, event, node, started) ==
    /\ type_checker' = w.tc
    /\ semantic_analyzer' = w.sa
    /\ frames' = w.frames
    /\ walk' = [walk EXCEPT !.count = @ + started, !.event = event, !.node = node]
    /\ UNCHANGED <<lexVars, parVars, symVars, srvVars>>

\* the innermost unfinished visit has a child statement left to visit
CanStart ==
    /\ walk.pc = "walking"
    /\ walk.count < MaxStatements
    /\ frames # <<>> => frames[Len(frames)].pending # 0

CanNest == CanStart /\ Len(frames) < MaxDepth

InitWalk ==
    /\ type_checker = NewTypeChecker
    /\ semantic_analyzer = NewSemanticAnalyzer
    /\ frames = <<>>
    /\ walk = [pc |-> "walking", count |-> 0, event |-> "start", node |-> NoNode,
               value |-> NoType]
    /\ LexerIdle
    /\ ParserIdle
    /\ SymbolsIdle
    /\ ServerIdle

WalkSimple ==
    /\ CanStart
    /\ \E i \in DOMAIN SimpleStatements(walk.count + 1) :
          LET node == SimpleStatements(walk.count + 1)[i] IN
          WalkStep(StatementReturned(
                       Walking(TypeChecker_accept(type_checker, node).walker,
                               SemanticAnalyzer_accept(semantic_analyzer, node).walker,
                               frames)),
                   "visit", node, 1)

WalkEnterFunction ==
    /\ CanNest
    /\ \E i \in DOMAIN FunctionDeclarations(walk.count + 1) :
          LET node == FunctionDeclarations(walk.count + 1)[i] IN
          WalkStep(Walking(TypeChecker_enter_function(type_checker, node),
                           SemanticAnalyzer_enter_function(semantic_analyzer, node),
                           Append(frames, Frame(node, ListBody, type_checker,
                                                semantic_analyzer))),
                   "enter", node, 1)

WalkLeaveFunction ==
    /\ walk.pc = "walking"
    /\ frames # <<>>
    /\ LET top == frames[Len(frames)]
       IN  /\ top.node.kind = "FunctionDeclaration"
           /\ WalkStep(StatementReturned(
                           Walking(TypeChecker_leave_function(type_checker, top),
                                   SemanticAnalyzer_leave_function(semantic_analyzer,
                                                                   top),
                                   SubSeq(frames, 1, Len(frames) - 1))),
                       "leave", top.node, 0)

WalkEnterBlock ==
    /\ CanNest
    /\ LET node == BlockStatement(walk.count + 1, 1)
       IN  WalkStep(Walking(TypeChecker_enter_scope(type_checker),
                            SemanticAnalyzer_enter_scope(semantic_analyzer),
                            Append(frames, Frame(node, ListBody, type_checker,
                                                 semantic_analyzer))),
                    "enter", node, 1)

WalkLeaveBlock ==
    /\ walk.pc = "walking"
    /\ frames # <<>>
    /\ LET top == frames[Len(frames)]
       IN  /\ top.node.kind = "BlockStatement"
           /\ WalkStep(StatementReturned(
                           Walking(TypeChecker_leave_scope(type_checker, top),
                                   SemanticAnalyzer_leave_scope(semantic_analyzer, top),
                                   SubSeq(frames, 1, Len(frames) - 1))),
                       "leave", top.node, 0)

WalkIf ==
    /\ CanNest
    /\ \E i \in DOMAIN IfStatements(walk.count + 1) :
          LET node == IfStatements(walk.count + 1)[i] IN
          WalkStep(Walking(TypeChecker_check_condition(type_checker, node.condition,
                                                       <<"I","f">>),
                           SemanticAnalyzer_accept(semantic_analyzer,
                                                   node.condition).walker,
                           Append(frames, Frame(node, IF node.has_else THEN 2 ELSE 1,
                                                type_checker, semantic_analyzer))),
                   "enter", node, 1)

WalkWhile ==
    /\ CanNest
    /\ \E i \in DOMAIN WhileStatements(walk.count + 1) :
          LET node == WhileStatements(walk.count + 1)[i] IN
          WalkStep(Walking(TypeChecker_check_condition(type_checker, node.condition,
                                                       <<"W","h","i","l","e">>),
                           SemanticAnalyzer_accept(semantic_analyzer,
                                                   node.condition).walker,
                           Append(frames, Frame(node, 1, type_checker,
                                                semantic_analyzer))),
                   "enter", node, 1)

WalkFor ==
    /\ CanNest
    /\ \E i \in DOMAIN ForStatements(walk.count + 1) :
          LET node == ForStatements(walk.count + 1)[i] IN
          WalkStep(Walking(TypeChecker_enter_for(type_checker, node),
                           SemanticAnalyzer_enter_for(semantic_analyzer, node),
                           Append(frames, Frame(node, 1, type_checker,
                                                semantic_analyzer))),
                   "enter", node, 1)

\* visit_if_statement returns once its branches are visited
WalkLeaveIf ==
    /\ walk.pc = "walking"
    /\ frames # <<>>
    /\ LET top == frames[Len(frames)]
       IN  /\ top.node.kind = "IfStatement"
           /\ top.pending = 0
           /\ WalkStep(StatementReturned(
                           Walking(type_checker, semantic_analyzer,
                                   SubSeq(frames, 1, Len(frames) - 1))),
                       "leave", top.node, 0)

\* visit_while_statement returns once its body is visited
WalkLeaveWhile ==
    /\ walk.pc = "walking"
    /\ frames # <<>>
    /\ LET top == frames[Len(frames)]
       IN  /\ top.node.kind = "WhileStatement"
           /\ top.pending = 0
           /\ WalkStep(StatementReturned(
                           Walking(type_checker, semantic_analyzer,
                                   SubSeq(frames, 1, Len(frames) - 1))),
                       "leave", top.node, 0)

\* visit_for_statement restores the scope once its body is visited
WalkLeaveFor ==
    /\ walk.pc = "walking"
    /\ frames # <<>>
    /\ LET top == frames[Len(frames)]
       IN  /\ top.node.kind = "ForStatement"
           /\ top.pending = 0
           /\ WalkStep(StatementReturned(
                           Walking(TypeChecker_leave_scope(type_checker, top),
                                   SemanticAnalyzer_leave_scope(semantic_analyzer, top),
                                   SubSeq(frames, 1, Len(frames) - 1))),
                       "leave", top.node, 0)

\* visit_program has visited the last statement: check and analyze return
WalkReturn ==
    /\ walk.pc = "walking"
    /\ frames = <<>>
    /\ walk' = [walk EXCEPT !.pc = "done", !.event = "return", !.node = NoNode]
    /\ UNCHANGED <<type_checker, semantic_analyzer, frames>>
    /\ UNCHANGED <<lexVars, parVars, symVars, srvVars>>

\* the document the hand-built program stands for
WalkUri == "file:///walk.aether"

(***************************************************************************)
(* The rest of _analyze_document on the errors the two walkers returned    *)
(* (a hand-built program has no parse errors): the diagnostics are built   *)
(* and published.                                                          *)
(***************************************************************************)
WalkPublish ==
    /\ walk.pc = "done"
    /\ walk' = [walk EXCEPT !.pc = "published", !.event = "publish"]
    /\ client' = [client EXCEPT
                     !.call = Call("publishDiagnostics", WalkUri, 0, 0),
                     !.outcome = "notified",
                     !.diagnostics =
                         DictPut(@, WalkUri,
                                 Diagnostics(<<>>, type_checker.errors,
                                             semantic_analyzer.errors))]
    /\ UNCHANGED <<type_checker, semantic_analyzer, frames, server>>
    /\ UNCHANGED <<lexVars, parVars, symVars>>

\* find_hover_info is called on the analyzer of the analysed program, for a
\* name of the program or for a name it does not hold
WalkHover ==
    /\ walk.pc = "published"
    /\ \E name \in WalkNames \cup {NameU} :
          LET hover_info == FindHoverInfo(semantic_analyzer, name, Location(1, 1))
          IN  /\ walk' = [walk EXCEPT !.pc = "hovered", !.event = "hover",
                                      !.node = IdentifierNode(name, 1, 1)]
              /\ client' = [client EXCEPT
                               !.call = Call("find_hover_info", WalkUri, 0, 0),
                               !.outcome = IF hover_info = NoString THEN "None"
                                           ELSE "str",
                               !.result = IF hover_info = NoString THEN <<>>
                                          ELSE hover_info]
    /\ UNCHANGED <<type_checker, semantic_analyzer, frames, server>>
    /\ UNCHANGED <<lexVars, parVars, symVars>>

NextWalk ==
    \/ WalkSimple
    \/ WalkEnterFunction
    \/ WalkLeaveFunction
    \/ WalkEnterBlock
    \/ WalkLeaveBlock
    \/ WalkIf
    \/ WalkWhile
    \/ WalkFor
    \/ WalkLeaveIf
    \/ WalkLeaveWhile
    \/ WalkLeaveFor
    \/ WalkReturn
    \/ WalkPublish
    \/ WalkHover

SpecWalk == InitWalk /\ [][NextWalk]_vars

(***************************************************************************)
(* C6: for every token stream that ends in EOF, parse terminates and       *)
(* returns a Program: every iteration of its loop strictly increases the   *)
(* token cursor and either appends one statement or appends the caught     *)
(* ParseError to parser.errors; the cursor never passes the EOF token and  *)
(* parse returns exactly when the cursor is on it.                         *)
(***************************************************************************)
C6_Iteration ==
    (parpc = "loop" /\ ~IsAtEnd(parser)) =>
        /\ parpc' = "loop"
        /\ parser'.current > parser.current
        /\ parser'.tokens = parser.tokens
        /\ \/ /\ Len(statements') = Len(statements) + 1
              /\ SubSeq(statements', 1, Len(statements)) = statements
              /\ parser'.errors = parser.errors
           \/ /\ statements' = statements
              /\ Len(parser'.errors) = Len(parser.errors) + 1
              /\ SubSeq(parser'.errors, 1, Len(parser.errors)) = parser.errors
              /\ \E k \in 1..Len(parser.tokens) :
                    /\ k > parser.current
                    /\ parser'.errors[Len(parser'.errors)].token = parser.tokens[k]

C6_Return ==
    (parpc = "loop" /\ IsAtEnd(parser)) =>
        (parpc' = "done" /\ parser' = parser /\ statements' = statements)

SyncPoints(p) ==
    {c \in p.current..(Len(p.tokens) - 1) :
        \/ p.tokens[c + 1].type = "EOF"
        \/ c >= 1 /\ p.tokens[c].type = "SEMICOLON"
        \/ p.tokens[c + 1].type \in SyncKeywords}

C7_RecoveryStep ==
    (parpc = "loop" /\ ~IsAtEnd(parser) /\ Declaration(parser).raised) =>
        parser'.current = SetMin(SyncPoints(Declaration(parser).p))

C7_ResumesAtFirstSyncPoint == [][C7_RecoveryStep]_vars

(***************************************************************************)
(* C8: the full pipeline on the source `var x: Int = 42;` (the parse, then *)
(* TypeChecker.check and SemanticAnalyzer.analyze on the Program returned) *)
(* ends with no parse error, no type error and no semantic error, and with *)
(* exactly one Definition recorded for x: kind variable, type_name Int,    *)
(* location (1,1).                                                         *)
(***************************************************************************)
C8_VarXPipeline ==
    (parpc = "analyzed" /\ parser.source = VarXSource) =>
        /\ parser.errors = <<>>
        /\ type_checker.errors = <<>>
        /\ semantic_analyzer.raised = "no"
        /\ semantic_analyzer.errors = <<>>
        /\ <<"x">> \in DOMAIN semantic_analyzer.definitions
        /\ Len(semantic_analyzer.definitions[<<"x">>]) = 1
        /\ LET d == semantic_analyzer.definitions[<<"x">>][1]
           IN  /\ d.name = <<"x">>
               /\ d.kind = <<"v","a","r","i","a","b","l","e">>
               /\ d.type_name = IntType
               /\ d.location = Location(1, 1)

(***************************************************************************)
(* Scope chains, stated without resolve: the k-th enclosing scope of s     *)
(* (the 0-th is s itself, NoScope beyond the root) and the nearest scope   *)
(* of the chain that binds a name.                                         *)
(***************************************************************************)
RECURSIVE AncestorAt(_, _)
AncestorAt(s, k) ==
    IF s = NoScope \/ k = 0 THEN s ELSE AncestorAt(scopes[s].parent, k - 1)

BindingDepths(s, name) ==
    {k \in 0..Len(scopes) :
        /\ AncestorAt(s, k) # NoScope
        /\ name \in DOMAIN scopes[AncestorAt(s, k)].symbols}

NearestBinding(s, name) ==
    IF BindingDepths(s, name) = {} THEN NoSymbol
    ELSE scopes[AncestorAt(s, SetMin(BindingDepths(s, name)))].symbols[name]

OwnBinding(s, name) ==
    IF name \in DOMAIN scopes[s].symbols THEN scopes[s].symbols[name] ELSE NoSymbol

(***************************************************************************)
(* C9: whatever scopes create_child_scope has built and whatever define    *)
(* has bound, resolve(name) on a scope is the binding of the nearest scope *)
(* of its parent chain that binds name, None when no scope up to the root  *)
(* binds it; resolve_local(name) is the scope's own binding or None;       *)
(* contains is true exactly when resolve is not None, contains_local       *)
(* exactly when resolve_local is not None.                                 *)
(***************************************************************************)
C9_ResolveNearestBinding ==
    \A s \in 1..Len(scopes), name \in SymNames :
        /\ Resolve(scopes, s, name) = NearestBinding(s, name)
        /\ ResolveLocal(scopes, s, name) = OwnBinding(s, name)
        /\ Contains(scopes, s, name) <=> (Resolve(scopes, s, name) # NoSymbol)
        /\ ContainsLocal(scopes, s, name)
              <=> (ResolveLocal(scopes, s, name) # NoSymbol)

\* a scope two levels below the root shadows the root's x through its parent,
\* finds y only in the root, and a sibling-free root binds both
C9_Witness ==
    \E s \in 1..Len(scopes) :
        /\ AncestorAt(s, 2) # NoScope
        /\ ~ContainsLocal(scopes, s, <<"x">>)
        /\ ContainsLocal(scopes, AncestorAt(s, 1), <<"x">>)
        /\ ContainsLocal(scopes, AncestorAt(s, 2), <<"x">>)
        /\ Resolve(scopes, s, <<"x">>) = scopes[AncestorAt(s, 1)].symbols[<<"x">>]
        /\ Resolve(scopes, s, <<"x">>) # scopes[AncestorAt(s, 2)].symbols[<<"x">>]
        /\ ResolveLocal(scopes, s, <<"x">>) = NoSymbol
        /\ ~Contains(scopes, s, <<"y">>)

(***************************************************************************)
(* C10: define(sym) on a scope leaves sym as the one binding of sym.name   *)
(* in that scope and changes nothing else: the scope's other bindings,     *)
(* every binding of every other scope (ancestors and descendants among     *)
(* them), all parent pointers and names stay as they were.                 *)
(* create_child_scope returns a new scope without bindings whose parent is *)
(* the receiver, and leaves the receiver and every other scope as it was.  *)
(***************************************************************************)
C10_DefineStep ==
    symcall'.op = "define" =>
        LET s == symcall'.scope
            sym == symcall'.symbol
        IN  /\ Len(scopes') = Len(scopes)
            /\ DOMAIN scopes'[s].symbols = (DOMAIN scopes[s].symbols) \cup {sym.name}
            /\ scopes'[s].symbols[sym.name] = sym
            /\ \A n \in (DOMAIN scopes[s].symbols) \ {sym.name} :
                   scopes'[s].symbols[n] = scopes[s].symbols[n]
            /\ \A t \in 1..Len(scopes) :
                   /\ scopes'[t].parent = scopes[t].parent
                   /\ scopes'[t].name = scopes[t].name
                   /\ t # s => scopes'[t].symbols = scopes[t].symbols

C10_CreateChildScopeStep ==
    symcall'.op = "create_child_scope" =>
        LET s == symcall'.scope
            child == symcall'.result
        IN  /\ child \notin 1..Len(scopes)
            /\ child \in 1..Len(scopes')
            /\ DOMAIN scopes'[child].symbols = {}
            /\ scopes'[child].parent = s
            /\ \A t \in 1..Len(scopes) : scopes'[t] = scopes[t]
            /\ Len(scopes') = Len(scopes) + 1

C10_DefineFrame == [][C10_DefineStep /\ C10_CreateChildScopeStep]_vars

\* define has just replaced the binding of x in a scope that has another
\* binding, an enclosing scope and an enclosed scope, each binding x too
C10_Witness ==
    /\ symcall.op = "define"
    /\ symcall.rebinding
    /\ LET s == symcall.scope
       IN  /\ scopes[s].symbols[symcall.symbol.name] = symcall.symbol
           /\ Cardinality(DOMAIN scopes[s].symbols) = 2
           /\ scopes[s].parent # NoScope
           /\ ContainsLocal(scopes, scopes[s].parent, symcall.symbol.name)
           /\ scopes[scopes[s].parent].symbols[symcall.symbol.name] # symcall.symbol
           /\ \E t \in 1..Len(scopes) :
                  /\ scopes[t].parent = s
                  /\ ContainsLocal(scopes, t, symcall.symbol.name)
                  /\ scopes[t].symbols[symcall.symbol.name] # symcall.symbol

(***************************************************************************)
(* C11: the scope stack discipline of TypeChecker and SemanticAnalyzer.    *)
(* When the visit of a FunctionDeclaration, a BlockStatement or a          *)
(* ForStatement returns, the current scope of each walker is the scope it  *)
(* had when the visit began, and every name resolves as it did then: what  *)
(* was declared only inside no longer resolves (the one binding a          *)
(* FunctionDeclaration adds to the enclosing scope is its own name).  When *)
(* check and analyze return, the current scope is the root scope.          *)
(***************************************************************************)
ScopedKinds == {"FunctionDeclaration", "BlockStatement", "ForStatement"}

\* the names a visit of node may bind in the scope that encloses it
DeclaredOutside(node) ==
    IF node.kind = "FunctionDeclaration" THEN {node.name.name} ELSE {}

C11_ReturnStep ==
    /\ Len(frames') < Len(frames) =>
          LET returned == frames[Len(frames)]
              kept == WalkNames \ DeclaredOutside(returned.node)
          IN  returned.node.kind \in ScopedKinds =>
                 /\ type_checker'.symbol_table = returned.tc_scope
                 /\ semantic_analyzer'.symbol_table = returned.sa_scope
                 /\ \A n \in kept :
                       /\ Visible(type_checker')[n] = returned.tc_visible[n]
                       /\ Visible(semantic_analyzer')[n] = returned.sa_visible[n]
    /\ walk'.pc = "done" =>
          /\ type_checker'.symbol_table = 1
          /\ type_checker'.heap[1].parent = NoScope
          /\ semantic_analyzer'.symbol_table = 1
          /\ semantic_analyzer'.heap[1].parent = NoScope

C11_ScopeStackDiscipline == [][C11_ReturnStep]_vars

\* a block that declared x has returned: x is bound in the scope left behind
\* and resolves in neither walker
C11_Witness ==
    /\ walk.event = "leave"
    /\ walk.node.kind = "BlockStatement"
    /\ \E s \in 1..Len(type_checker.heap) :
          ContainsLocal(type_checker.heap, s, NameX)
    /\ \E s \in 1..Len(semantic_analyzer.heap) :
          ContainsLocal(semantic_analyzer.heap, s, NameX)
    /\ Visible(type_checker)[NameX] = NoSymbol
    /\ Visible(semantic_analyzer)[NameX] = NoSymbol

(***************************************************************************)
(* The visit of single nodes.  A type checker that has checked a few       *)
(* declarations visits variable declarations and expressions built from    *)
(* operands of every type: the literals of the four literal kinds and u, a *)
(* name that is not declared, whose type is Unknown.                       *)
(***************************************************************************)
MaxVisits == 1

MaxArguments == 2

MaxElements == 3

NameG == <<"g">>

NameA == <<"a">>

NameV == <<"v">>

\* var x: Int = 1; function f(x: Int) -> Int {} function g(a: Any, x: String)
\* -> String {} and a second declaration of x, which is in error
Declarations ==
    <<VariableDeclaration(IdentifierNode(NameX, 1, 5), IntType, IntegerAt(1, 14),
                          1, 1),
      FunctionDeclaration(IdentifierNode(NameF, 2, 10),
                          <<Parameter(IdentifierNode(NameX, 2, 12), IntType)>>,
                          IntType, 2, 1),
      FunctionDeclaration(IdentifierNode(NameG, 3, 10),
                          <<Parameter(IdentifierNode(NameA, 3, 12), AnyType),
                            Parameter(IdentifierNode(NameX, 3, 20), StringType)>>,
                          StringType, 3, 1),
      VariableDeclaration(IdentifierNode(NameX, 4, 5), IntType, StringAt(4, 14),
                          4, 1)>>

\* the type checker once check has visited the first k declarations; the
\* functions have empty bodies
RECURSIVE Declared(_)
Declared(k) ==
    IF k = 0 THEN NewTypeChecker
    ELSE LET tc == Declared(k - 1)
             node == Declarations[k]
         IN  IF node.kind = "FunctionDeclaration"
             THEN TypeChecker_leave_function(
                      TypeChecker_enter_function(tc, node),
                      Frame(node, ListBody, tc, NewSemanticAnalyzer))
             ELSE TypeChecker_accept(tc, node).walker

\* one operand of each type: Int, Float, String, Boolean, Unknown
Operands(line, column) ==
    <<IntegerAt(line, column), FloatAt(line, column), StringAt(line, column),
      BooleanAt(line, column), IdentifierNode(NameU, line, column)>>

\* the operators of the binary expressions visited: arithmetic, comparison,
\* and the operators the checker has no rule for
BinaryOperators ==
    {<<"+">>, <<"-">>, <<"*">>, <<"/">>,
     <<"=","=">>, <<"!","=">>, <<"<">>, <<">">>, <<"<","=">>, <<">","=">>,
     <<"%">>, <<"&","&">>, <<"|","|">>}

\* what stands where a callee or an assignment target is expected: the
\* functions f, g and print, the variable x, the undeclared u, a literal
Targets(line) ==
    <<IdentifierNode(NameF, line, 1), IdentifierNode(NameG, line, 1),
      IdentifierNode(PrintName, line, 1), IdentifierNode(NameX, line, 1),
      IdentifierNode(NameU, line, 1), IntegerAt(line, 1)>>

\* the arguments of a call: Int, String or Unknown
Arguments(line, column) ==
    <<IntegerAt(line, column), StringAt(line, column),
      IdentifierNode(NameU, line, column)>>

\* the elements of an array literal: Int or String
Elements(line, column) == <<IntegerAt(line, column), StringAt(line, column)>>

\* the names a declaration declares: x is declared already, v is not
DeclaredNames == <<NameX, NameV>>

\* the annotations of a declaration: none, two types and Any, which is not
\* one of the types of the checker
Annotations == <<NoAnnotation, IntType, StringType, AnyType>>

\* the initializers of a declaration: none, or one of the operands
Initializers(line, column) == <<NoNode>> \o Operands(line, column)

\* the line of the next expression
ExpressionLine == Len(Declarations) + walk.count + 1

InitExpressions ==
    /\ type_checker \in {Declared(k) : k \in {Len(Declarations) - 1, Len(Declarations)}}
    /\ semantic_analyzer = NewSemanticAnalyzer
    /\ frames = <<>>
    /\ walk = [pc |-> "walking", count |-> 0, event |-> "start", node |-> NoNode,
               value |-> NoType]
    /\ LexerIdle
    /\ ParserIdle
    /\ SymbolsIdle
    /\ ServerIdle

\* node.accept(checker) for an expression: the checker after the visit, and
\* the type returned
VisitExpression(node) ==
    LET visited == TypeChecker_accept(type_checker, node)
    IN  /\ type_checker' = visited.walker
        /\ walk' = [walk EXCEPT !.count = @ + 1, !.event = "visit",
                                !.node = node, !.value = visited.value]
        /\ UNCHANGED <<semantic_analyzer, frames>>
        /\ UNCHANGED <<lexVars, parVars, symVars, srvVars>>

\* node.accept(checker) for a statement, which returns no type
VisitStatement(node) ==
    /\ type_checker' = TypeChecker_accept(type_checker, node).walker
    /\ walk' = [walk EXCEPT !.count = @ + 1, !.event = "visit", !.node = node,
                            !.value = NoType]
    /\ UNCHANGED <<semantic_analyzer, frames>>
    /\ UNCHANGED <<lexVars, parVars, symVars, srvVars>>

CanVisit == walk.pc = "walking" /\ walk.count < MaxVisits

VisitBinary ==
    /\ CanVisit
    /\ \E i, j \in DOMAIN Operands(ExpressionLine, 1), op \in BinaryOperators :
          VisitExpression(BinaryExpression(Operands(ExpressionLine, 1)[i], op,
                                           Operands(ExpressionLine, 5)[j],
                                           ExpressionLine, 3))

VisitCall ==
    /\ CanVisit
    /\ \E c \in DOMAIN Targets(ExpressionLine), n \in 0..MaxArguments :
          \E choice \in [1..n -> DOMAIN Arguments(ExpressionLine, 1)] :
             VisitExpression(
                 CallExpression(Targets(ExpressionLine)[c],
                                [k \in 1..n |->
                                    Arguments(ExpressionLine, 2 * k + 1)[choice[k]]],
                                ExpressionLine, 2))

VisitAssignment ==
    /\ CanVisit
    /\ \E t \in DOMAIN Targets(ExpressionLine),
          v \in DOMAIN Operands(ExpressionLine, 5) :
          VisitExpression(AssignmentExpression(Targets(ExpressionLine)[t],
                                               Operands(ExpressionLine, 5)[v],
                                               ExpressionLine, 3))

VisitArray ==
    /\ CanVisit
    /\ \E n \in 0..MaxElements :
          \E choice \in [1..n -> DOMAIN Elements(ExpressionLine, 1)] :
             VisitExpression(
                 ArrayLiteral([k \in 1..n |->
                                  Elements(ExpressionLine, 2 * k)[choice[k]]],
                              ExpressionLine, 1))

VisitVariableDeclaration ==
    /\ CanVisit
    /\ \E n \in DOMAIN DeclaredNames, a \in DOMAIN Annotations,
          i \in DOMAIN Initializers(ExpressionLine, 14) :
          VisitStatement(
              VariableDeclaration(IdentifierNode(DeclaredNames[n], ExpressionLine, 5),
                                  Annotations[a],
                                  Initializers(ExpressionLine, 14)[i],
                                  ExpressionLine, 1))

NextExpressions ==
    \/ VisitVariableDeclaration
    \/ VisitBinary
    \/ VisitCall
    \/ VisitAssignment
    \/ VisitArray

SpecExpressions == InitExpressions /\ [][NextExpressions]_vars

(***************************************************************************)
(* What a visit appended to the errors of the type checker, and how many   *)
(* of a list of errors are located at a node.                              *)
(***************************************************************************)
ErrorsKept ==
    /\ Len(type_checker'.errors) >= Len(type_checker.errors)
    /\ SubSeq(type_checker'.errors, 1, Len(type_checker.errors)) = type_checker.errors

Appended ==
    SubSeq(type_checker'.errors, Len(type_checker.errors) + 1,
           Len(type_checker'.errors))

CountAt(errors, node) ==
    Cardinality({i \in DOMAIN errors : /\ errors[i].line = node.line
                                       /\ errors[i].column = node.column})

\* the type of an operand, read off the operand
OperandType(node) ==
    CASE node.kind = "IntegerLiteral" -> IntType
      [] node.kind = "FloatLiteral" -> FloatType
      [] node.kind = "StringLiteral" -> StringType
      [] node.kind = "BooleanLiteral" -> BooleanType
      [] node.kind = "Identifier" /\ node.name = NameU -> UnknownType

(***************************************************************************)
(* C12: a BinaryExpression whose operator is one of + - * / has type Int   *)
(* when both operands are Int, Float for the other pairs of Int and Float, *)
(* String for + with at least one String operand; for every other          *)
(* combination of the types Int, Float, String, Boolean and Unknown the    *)
(* visit appends exactly one error at the node and the type is Unknown.    *)
(***************************************************************************)
C12_Operators == {<<"+">>, <<"-">>, <<"*">>, <<"/">>}

C12_Numeric == {IntType, FloatType}

\* the type the rule gives, None where it gives an error
C12_Rule(left_type, operator, right_type) ==
    IF left_type = IntType /\ right_type = IntType THEN IntType
    ELSE IF left_type \in C12_Numeric /\ right_type \in C12_Numeric THEN FloatType
    ELSE IF operator = <<"+">> /\ StringType \in {left_type, right_type}
    THEN StringType
    ELSE None

C12_Step ==
    (/\ walk'.event = "visit"
     /\ walk'.count = walk.count + 1
     /\ walk'.node.kind = "BinaryExpression"
     /\ walk'.node.operator \in C12_Operators) =>
        LET node == walk'.node
            rule == C12_Rule(OperandType(node.left), node.operator,
                             OperandType(node.right))
        IN  /\ ErrorsKept
            /\ IF rule = None
               THEN /\ walk'.value = UnknownType
                    /\ CountAt(Appended, node) = 1
               ELSE /\ walk'.value = rule
                    /\ CountAt(Appended, node) = 0

C12_BinaryExpressionTyping == [][C12_Step]_vars

\* 1.5 * 's' has been visited: Unknown, and the last error is at the node
C12_Witness ==
    /\ walk.event = "visit"
    /\ walk.node.kind = "BinaryExpression"
    /\ walk.node.operator = <<"*">>
    /\ walk.node.left.kind = "FloatLiteral"
    /\ walk.node.right.kind = "StringLiteral"
    /\ walk.value = UnknownType
    /\ type_checker.errors # <<>>
    /\ type_checker.errors[Len(type_checker.errors)].line = walk.node.line
    /\ type_checker.errors[Len(type_checker.errors)].column = walk.node.column

\* word occurs in message
Mentions(message, word) ==
    \E i \in 1..(Len(message) - Len(word) + 1) :
       SubSeq(message, i, i + Len(word) - 1) = word

AlreadyDefined == <<"a","l","r","e","a","d","y"," ","d","e","f","i","n","e","d">>

\* the type of an initializer
InitializerType(node) == OperandType(node)

(***************************************************************************)
(* C13: the visit of a VariableDeclaration that has a type annotation and  *)
(* an initializer of another type appends a type error at the declaration; *)
(* for var v: Int = 's' it appends exactly one error, which names String   *)
(* and Int.  The symbol recorded for the variable has the annotation as    *)
(* its type_name if there is one, otherwise the type of the initializer.   *)
(***************************************************************************)
C13_Step ==
    (/\ walk'.event = "visit"
     /\ walk'.count = walk.count + 1
     /\ walk'.node.kind = "VariableDeclaration") =>
        LET node == walk'.node
            name == node.name.name
            annotated == node.type_annotation # NoAnnotation
            initialized == node.initializer # NoNode
            fresh == ~ContainsLocal(type_checker.heap, type_checker.symbol_table,
                                    name)
            recorded == ResolveLocal(type_checker'.heap,
                                     type_checker'.symbol_table, name)
        IN  /\ ErrorsKept
            /\ (/\ annotated
                /\ initialized
                /\ InitializerType(node.initializer) # node.type_annotation) =>
                   \E i \in DOMAIN Appended :
                      /\ Appended[i].line = node.line
                      /\ Appended[i].column = node.column
                      /\ ~Mentions(Appended[i].message, AlreadyDefined)
            /\ (/\ fresh
                /\ node.type_annotation = IntType
                /\ initialized
                /\ node.initializer.kind = "StringLiteral") =>
                   /\ Len(Appended) = 1
                   /\ Mentions(Appended[1].message, StringType)
                   /\ Mentions(Appended[1].message, IntType)
            /\ (fresh /\ annotated) =>
                   recorded = VariableSymbol(name, node.type_annotation)
            /\ (fresh /\ ~annotated /\ initialized) =>
                   recorded = VariableSymbol(name,
                                             InitializerType(node.initializer))

C13_VariableDeclarationTyping == [][C13_Step]_vars

\* var v: Int = 's' has been visited: one more error, and v is an Int
C13_Witness ==
    /\ walk.event = "visit"
    /\ walk.node.kind = "VariableDeclaration"
    /\ walk.node.name.name = NameV
    /\ walk.node.type_annotation = IntType
    /\ walk.node.initializer.kind = "StringLiteral"
    /\ type_checker.errors # <<>>
    /\ Mentions(type_checker.errors[Len(type_checker.errors)].message, StringType)
    /\ ResolveLocal(type_checker.heap, type_checker.symbol_table, NameV)
          = VariableSymbol(NameV, IntType)

(***************************************************************************)
(* C14: in the type checker, the declaration of a variable or a function   *)
(* whose name is bound in the current scope appends exactly one 'already   *)
(* defined' error and leaves the binding as it was; the declaration of a   *)
(* name that is bound only in an enclosing scope appends no such error,    *)
(* binds the name in the current scope and leaves the enclosing binding as *)
(* it was.                                                                 *)
(***************************************************************************)
C14_BoundIn(tc, s, name) == name \in DOMAIN tc.heap[s].symbols

C14_Binding(tc, s, name) == tc.heap[s].symbols[name]

C14_AlreadyDefinedErrors ==
    Cardinality({i \in DOMAIN Appended :
                    Mentions(Appended[i].message, AlreadyDefined)})

C14_Step ==
    (\/ /\ walk'.event = "visit"
        /\ walk'.node.kind = "VariableDeclaration"
     \/ /\ walk'.event = "enter"
        /\ walk'.node.kind = "FunctionDeclaration") =>
        LET node == walk'.node
            name == node.name.name
            scope == type_checker.symbol_table
            outer == type_checker.heap[scope].parent
            kind == IF node.kind = "VariableDeclaration"
                    THEN "VariableSymbol" ELSE "FunctionSymbol"
        IN  /\ ErrorsKept
            /\ IF C14_BoundIn(type_checker, scope, name)
               THEN /\ C14_AlreadyDefinedErrors = 1
                    /\ C14_Binding(type_checker', scope, name)
                          = C14_Binding(type_checker, scope, name)
               ELSE /\ C14_AlreadyDefinedErrors = 0
                    /\ C14_BoundIn(type_checker', scope, name)
                    /\ C14_Binding(type_checker', scope, name).kind = kind
                    /\ outer # NoScope =>
                          Resolve(type_checker'.heap, outer, name)
                             = Resolve(type_checker.heap, outer, name)

C14_Redeclaration == [][C14_Step]_vars

\* var x: Int = 's' has been visited where x was bound to a String: the
\* error is there and x is still a String
C14_Witness ==
    /\ walk.event = "visit"
    /\ walk.node.kind = "VariableDeclaration"
    /\ walk.node.type_annotation = IntType
    /\ type_checker.errors # <<>>
    /\ Mentions(type_checker.errors[Len(type_checker.errors)].message,
                AlreadyDefined)
    /\ ResolveLocal(type_checker.heap, type_checker.symbol_table, NameX)
          = VariableSymbol(NameX, StringType)

(***************************************************************************)
(* C15: the visit of a ReturnStatement by the type checker appends exactly *)
(* one error when the statement is outside any function; inside a function *)
(* return; appends exactly one error iff the function's return type is not *)
(* Void, and return expr; appends one iff the type of expr differs from    *)
(* the function's return type.                                             *)
(***************************************************************************)
\* the indices of the unfinished visits of function declarations
C15_Functions == {i \in DOMAIN frames : frames[i].node.kind = "FunctionDeclaration"}

\* the declaration of the innermost function around the next statement
C15_Enclosing == frames[SetMax(C15_Functions)].node

C15_Step ==
    (/\ walk'.event = "visit"
     /\ walk'.node.kind = "ReturnStatement") =>
        LET node == walk'.node
        IN  /\ ErrorsKept
            /\ Len(Appended) = CountAt(Appended, node)
            /\ IF C15_Functions = {}
               THEN Len(Appended) = 1
               ELSE IF node.value = NoNode
               THEN Len(Appended) = 1 <=> C15_Enclosing.return_type # VoidType
               ELSE Len(Appended) = 1
                       <=> OperandType(node.value) # C15_Enclosing.return_type
            /\ Len(Appended) \in {0, 1}

C15_ReturnStatement == [][C15_Step]_vars

\* function f(x: Int) -> Int { return; } so far: exactly one type error
C15_Witness ==
    /\ walk.event = "visit"
    /\ walk.node.kind = "ReturnStatement"
    /\ walk.node.value = NoNode
    /\ walk.count = 2
    /\ Len(frames) = 1
    /\ frames[1].node.kind = "FunctionDeclaration"
    /\ frames[1].node.return_type = IntType
    /\ Len(type_checker.errors) = 1

(***************************************************************************)
(* C16: the visit of a CallExpression whose callee is an Identifier bound  *)
(* to a FunctionSymbol appends an error at the call if the number of       *)
(* arguments differs from the number of parameters; otherwise it appends,  *)
(* for each argument, an argument error iff the argument's type differs    *)
(* from the parameter's type_name and that type_name is not Any.  The type *)
(* of the call is the function's return type.  For any other callee the    *)
(* visit appends an error at the call and the type is Unknown.             *)
(***************************************************************************)
C16_ArgumentWord == <<"A","r","g","u","m","e","n","t"," ">>

\* how many of the appended errors are argument errors located at argument
C16_ArgumentErrors(argument) ==
    Cardinality({i \in DOMAIN Appended :
                    /\ Appended[i].line = argument.line
                    /\ Appended[i].column = argument.column
                    /\ Mentions(Appended[i].message, C16_ArgumentWord)})

C16_Step ==
    (/\ walk'.event = "visit"
     /\ walk'.count = walk.count + 1
     /\ walk'.node.kind = "CallExpression") =>
        LET node == walk'.node
            bound == IF node.callee.kind = "Identifier"
                     THEN Resolve(type_checker.heap, type_checker.symbol_table,
                                  node.callee.name)
                     ELSE NoSymbol
        IN  /\ ErrorsKept
            /\ IF bound.kind = "FunctionSymbol"
               THEN /\ walk'.value = bound.type_name
                    /\ IF Len(node.arguments) # Len(bound.parameters)
                       THEN CountAt(Appended, node) = 1
                       ELSE /\ CountAt(Appended, node) = 0
                            /\ \A k \in DOMAIN node.arguments :
                                  C16_ArgumentErrors(node.arguments[k])
                                     = IF /\ OperandType(node.arguments[k])
                                               # bound.parameters[k].type_name
                                          /\ bound.parameters[k].type_name # AnyType
                                       THEN 1 ELSE 0
               ELSE /\ walk'.value = UnknownType
                    /\ CountAt(Appended, node) = 1

C16_CallExpression == [][C16_Step]_vars

\* g(1, 1) has been visited: String, and the last error is at the second
\* argument, which is not a String; the first parameter is Any
C16_Witness ==
    /\ walk.event = "visit"
    /\ walk.node.kind = "CallExpression"
    /\ walk.node.callee = IdentifierNode(NameG, walk.node.line, 1)
    /\ Len(walk.node.arguments) = 2
    /\ walk.node.arguments[1].kind = "IntegerLiteral"
    /\ walk.node.arguments[2].kind = "IntegerLiteral"
    /\ walk.value = StringType
    /\ type_checker.errors # <<>>
    /\ type_checker.errors[Len(type_checker.errors)].column
          = walk.node.arguments[2].column
    /\ Mentions(type_checker.errors[Len(type_checker.errors)].message,
                C16_ArgumentWord)

(***************************************************************************)
(* C17: the visit of an AssignmentExpression appends a type error at the   *)
(* assignment whenever the target is not an Identifier bound to a mutable  *)
(* variable (it is bound to a function, it is not bound, it is not an      *)
(* Identifier), and whenever the type of the value differs from the type   *)
(* of the variable.                                                        *)
(***************************************************************************)
C17_Step ==
    (/\ walk'.event = "visit"
     /\ walk'.count = walk.count + 1
     /\ walk'.node.kind = "AssignmentExpression") =>
        LET node == walk'.node
            bound == IF node.target.kind = "Identifier"
                     THEN Resolve(type_checker.heap, type_checker.symbol_table,
                                  node.target.name)
                     ELSE NoSymbol
            variable == bound.kind = "VariableSymbol" /\ bound.is_mutable
        IN  /\ ErrorsKept
            /\ ~variable => CountAt(Appended, node) >= 1
            /\ (variable /\ OperandType(node.value) # bound.type_name) =>
                   CountAt(Appended, node) >= 1

C17_AssignmentTarget == [][C17_Step]_vars

(***************************************************************************)
(* C18: the visit of an empty ArrayLiteral returns Array<Any> and appends  *)
(* no error; the visit of a non-empty one returns Array<T>, T being the    *)
(* type of the first element, and appends as many errors as there are      *)
(* later elements whose type differs from T.                               *)
(***************************************************************************)
C18_Array(element_type) == <<"A","r","r","a","y","<">> \o element_type \o <<">">>

C18_Step ==
    (/\ walk'.event = "visit"
     /\ walk'.count = walk.count + 1
     /\ walk'.node.kind = "ArrayLiteral") =>
        LET elements == walk'.node.elements
        IN  /\ ErrorsKept
            /\ IF elements = <<>>
               THEN /\ walk'.value = C18_Array(<<"A","n","y">>)
                    /\ Appended = <<>>
               ELSE LET first_type == OperandType(elements[1])
                        differing ==
                            {k \in 2..Len(elements) :
                                OperandType(elements[k]) # first_type}
                    IN  /\ walk'.value = C18_Array(first_type)
                        /\ Len(Appended) = Cardinality(differing)
                        /\ \A k \in differing : CountAt(Appended, elements[k]) = 1

C18_ArrayLiteral == [][C18_Step]_vars

\* ['s', 1, 1] has been visited by a checker without errors: Array<String>
\* and two errors, the last one at the third element
C18_Witness ==
    /\ walk.event = "visit"
    /\ walk.node.kind = "ArrayLiteral"
    /\ Len(walk.node.elements) = 3
    /\ walk.node.elements[1].kind = "StringLiteral"
    /\ walk.node.elements[2].kind = "IntegerLiteral"
    /\ walk.node.elements[3].kind = "IntegerLiteral"
    /\ walk.value = C18_Array(StringType)
    /\ Len(type_checker.errors) = 2
    /\ type_checker.errors[2].column = walk.node.elements[3].column

(***************************************************************************)
(* C19: the visit of an IfStatement, a WhileStatement or a ForStatement    *)
(* with a condition appends exactly one condition error, located at the    *)
(* condition expression, iff the type of the condition is not Boolean; the *)
(* statement's branches or body are visited afterwards all the same.       *)
(***************************************************************************)
C19_Kinds == {"IfStatement", "WhileStatement", "ForStatement"}

C19_ConditionWord ==
    <<" ","c","o","n","d","i","t","i","o","n"," ","m","u","s","t"," ","b","e"," ","a"," ","B","o","o","l","e","a","n">>

\* the type of the condition: of a literal, or of the variable that the
\* initializer of the for statement declares
C19_ConditionType(node) ==
    IF node.condition.kind = "Identifier"
    THEN node.initializer.type_annotation
    ELSE OperandType(node.condition)

C19_ConditionErrors ==
    {i \in DOMAIN Appended : Mentions(Appended[i].message, C19_ConditionWord)}

C19_Children(node) ==
    IF node.kind = "IfStatement" /\ node.has_else THEN 2 ELSE 1

C19_Step ==
    (/\ walk'.event = "enter"
     /\ walk'.node.kind \in C19_Kinds
     /\ walk'.node.condition # NoNode) =>
        LET node == walk'.node
        IN  /\ ErrorsKept
            /\ Cardinality(C19_ConditionErrors)
                  = IF C19_ConditionType(node) # BooleanType THEN 1 ELSE 0
            /\ \A i \in C19_ConditionErrors :
                  /\ Appended[i].line = node.condition.line
                  /\ Appended[i].column = node.condition.column
            /\ Len(frames') = Len(frames) + 1
            /\ frames'[Len(frames')].node = node
            /\ frames'[Len(frames')].pending = C19_Children(node)

C19_ConditionMustBeBoolean == [][C19_Step]_vars

\* if (1) return; so far: the condition error at the condition, then the
\* error of the branch
C19_Witness ==
    /\ walk.event = "visit"
    /\ walk.node.kind = "ReturnStatement"
    /\ Len(frames) = 1
    /\ frames[1].node.kind = "IfStatement"
    /\ frames[1].node.condition.kind = "IntegerLiteral"
    /\ Len(type_checker.errors) = 2
    /\ Mentions(type_checker.errors[1].message, C19_ConditionWord)
    /\ type_checker.errors[1].line = frames[1].node.condition.line
    /\ type_checker.errors[1].column = frames[1].node.condition.column
    /\ type_checker.errors[2].line = walk.node.line

(***************************************************************************)
(* C20: at every point of the walk of the semantic analyzer, every         *)
(* Reference r it has recorded has a non-empty definitions[r.name] that    *)
(* holds a Definition whose location is r.definition.location.             *)
(***************************************************************************)
C20_Defined(r) ==
    /\ r.name \in DOMAIN semantic_analyzer.definitions
    /\ semantic_analyzer.definitions[r.name] # <<>>
    /\ \E k \in DOMAIN semantic_analyzer.definitions[r.name] :
          semantic_analyzer.definitions[r.name][k].location
             = r.definition.location

C20_ReferencesAreDefined ==
    \A i \in DOMAIN semantic_analyzer.references :
       C20_Defined(semantic_analyzer.references[i])

\* x has been referred to and has been declared twice since the walk began
C20_Witness ==
    /\ walk.pc = "walking"
    /\ \E i \in DOMAIN semantic_analyzer.references :
          /\ semantic_analyzer.references[i].name = NameX
          /\ Len(semantic_analyzer.definitions[NameX]) >= 2
          /\ semantic_analyzer.references[i].location.line
                < semantic_analyzer.definitions[NameX][2].location.line

(***************************************************************************)
(* C30: in the type checker a BinaryExpression whose operator is none of   *)
(* + - * / == != < > <= >= (such as %, && and ||) appends exactly one      *)
(* 'Cannot apply operator' error at the node and has type Unknown for      *)
(* every pair of operand types; with one of the six comparison operators   *)
(* it has type Boolean and appends no error at the node, for every pair of *)
(* operand types.                                                          *)
(***************************************************************************)
C30_Comparisons ==
    {<<"=","=">>, <<"!","=">>, <<"<">>, <<">">>, <<"<","=">>, <<">","=">>}

C30_CannotApply ==
    <<"C","a","n","n","o","t"," ","a","p","p","l","y"," ","o","p","e","r","a","t","o","r">>

C30_ErrorsAtNode(node) ==
    {i \in DOMAIN Appended : /\ Appended[i].line = node.line
                             /\ Appended[i].column = node.column}

C30_Step ==
    (/\ walk'.event = "visit"
     /\ walk'.count = walk.count + 1
     /\ walk'.node.kind = "BinaryExpression"
     /\ walk'.node.operator \notin C12_Operators) =>
        LET node == walk'.node
        IN  /\ ErrorsKept
            /\ IF node.operator \in C30_Comparisons
               THEN /\ walk'.value = BooleanType
                    /\ C30_ErrorsAtNode(node) = {}
               ELSE /\ walk'.value = UnknownType
                    /\ Cardinality(C30_ErrorsAtNode(node)) = 1
                    /\ \A i \in C30_ErrorsAtNode(node) :
                          Mentions(Appended[i].message, C30_CannotApply)

C30_OtherOperators == [][C30_Step]_vars

\* true && true has been visited: Unknown, and the last error is at the node
C30_Witness ==
    /\ walk.event = "visit"
    /\ walk.node.kind = "BinaryExpression"
    /\ walk.node.operator = <<"&","&">>
    /\ walk.node.left.kind = "BooleanLiteral"
    /\ walk.node.right.kind = "BooleanLiteral"
    /\ walk.value = UnknownType
    /\ type_checker.errors # <<>>
    /\ type_checker.errors[Len(type_checker.errors)].column = walk.node.column
    /\ Mentions(type_checker.errors[Len(type_checker.errors)].message,
                C30_CannotApply)

(***************************************************************************)
(* C21: a visit of an Identifier by the semantic analyzer appends exactly  *)
(* one entry to exactly one list: when the name resolves through the       *)
(* current scope chain, one Reference bound to the first Definition        *)
(* recorded for the name, whichever scope declared it; otherwise the error *)
(* "Undefined identifier '<name>' at <line>:<col>".  A name that resolves  *)
(* has a recorded Definition.                                              *)
(***************************************************************************)
C21_Undefined(node) ==
    <<"U","n","d","e","f","i","n","e","d"," ","i","d","e","n","t","i","f","i","e","r"," ","'">>
    \o node.name \o <<"'"," ","a","t"," ">> \o IntToChars(node.line)
    \o <<":">> \o IntToChars(node.column)

C21_Step ==
    (/\ walk'.event = "visit"
     /\ walk'.count = walk.count + 1
     /\ walk'.node.kind = "ExpressionStatement"
     /\ walk'.node.expression.kind = "Identifier") =>
        LET node == walk'.node.expression
            sa == semantic_analyzer
        IN  /\ semantic_analyzer'.definitions = sa.definitions
            /\ IF Resolve(sa.heap, sa.symbol_table, node.name) # NoSymbol
               THEN /\ node.name \in DOMAIN sa.definitions
                    /\ semantic_analyzer'.errors = sa.errors
                    /\ semantic_analyzer'.references =
                          Append(sa.references,
                                 [name |-> node.name,
                                  location |-> [line |-> node.line,
                                                column |-> node.column],
                                  definition |-> sa.definitions[node.name][1]])
               ELSE /\ semantic_analyzer'.references = sa.references
                    /\ semantic_analyzer'.errors =
                          Append(sa.errors, C21_Undefined(node))

C21_Resolved ==
    walk.pc = "walking" =>
        \A n \in WalkNames :
           Resolve(semantic_analyzer.heap, semantic_analyzer.symbol_table, n)
              # NoSymbol
           => /\ n \in DOMAIN semantic_analyzer.definitions
              /\ semantic_analyzer.definitions[n] # <<>>

C21_IdentifierVisit == [][C21_Step]_vars /\ []C21_Resolved

\* x, declared twice and never in the global scope, has been referred to
\* after its second declaration and the reference is bound to the first one
C21_Witness ==
    /\ walk.event = "visit"
    /\ walk.node.kind = "ExpressionStatement"
    /\ walk.node.expression.kind = "Identifier"
    /\ frames # <<>>
    /\ semantic_analyzer.references # <<>>
    /\ LET r == semantic_analyzer.references[Len(semantic_analyzer.references)]
       IN  /\ r.name = NameX
           /\ r.location.line = walk.node.line
           /\ NameX \in DOMAIN semantic_analyzer.definitions
           /\ Len(semantic_analyzer.definitions[NameX]) >= 2
           /\ r.definition = semantic_analyzer.definitions[NameX][1]
           /\ semantic_analyzer.definitions[NameX][2].location.line
                 < r.location.line
           /\ ~ContainsLocal(semantic_analyzer.heap, 1, NameX)

(***************************************************************************)
(* C29: the function context of the type checker is a stack.  While the    *)
(* body of a FunctionDeclaration is checked, current_function is the       *)
(* symbol of that declaration, also when the declaration was rejected as a *)
(* redeclaration; once the visit of the declaration has returned,          *)
(* current_function is what it was before.  A return statement that        *)
(* follows a nested declaration is checked against the return type of the  *)
(* enclosing function, and one that follows a top-level declaration is     *)
(* reported as outside of a function.                                      *)
(***************************************************************************)
C29_FunctionFrames ==
    {i \in DOMAIN frames : frames[i].node.kind = "FunctionDeclaration"}

C29_Context ==
    walk.pc = "walking" =>
        IF C29_FunctionFrames = {}
        THEN type_checker.current_function = NoSymbol
        ELSE LET declaration == frames[SetMax(C29_FunctionFrames)].node
             IN  /\ type_checker.current_function.kind = "FunctionSymbol"
                 /\ type_checker.current_function.name = declaration.name.name
                 /\ type_checker.current_function.type_name
                       = declaration.return_type
                 /\ Len(type_checker.current_function.parameters)
                       = Len(declaration.parameters)

C29_Outside ==
    <<"o","u","t","s","i","d","e"," ","o","f"," ","f","u","n","c","t","i","o","n">>

\* the return statement that follows the visit of a function declaration
C29_Step ==
    (/\ walk.event = "leave"
     /\ walk.node.kind = "FunctionDeclaration"
     /\ walk'.event = "visit"
     /\ walk'.count = walk.count + 1
     /\ walk'.node.kind = "ReturnStatement") =>
        /\ type_checker.current_function
              = IF frames = <<>> THEN NoSymbol
                ELSE type_checker'.current_function
        /\ IF C29_FunctionFrames = {}
           THEN /\ Len(Appended) = 1
                /\ Mentions(Appended[1].message, C29_Outside)
           ELSE LET enclosing == frames[SetMax(C29_FunctionFrames)].node
                    expected == IF walk'.node.value = NoNode THEN VoidType
                                ELSE OperandType(walk'.node.value)
                IN  /\ Len(Appended) = IF expected = enclosing.return_type
                                       THEN 0 ELSE 1
                    /\ \A i \in DOMAIN Appended :
                          ~Mentions(Appended[i].message, C29_Outside)

C29_FunctionContext == []C29_Context /\ [][C29_Step]_vars

\* function f(x: Int) -> Int { function x() -> Void { } return 1; } so far:
\* the declaration of x in the scope of the parameter x was rejected, and the
\* return that follows it is accepted for f
C29_Witness ==
    /\ walk.event = "visit"
    /\ walk.node.kind = "ReturnStatement"
    /\ walk.node.value # NoNode
    /\ walk.count = 3
    /\ Len(frames) = 1
    /\ frames[1].node.kind = "FunctionDeclaration"
    /\ frames[1].node.return_type = IntType
    /\ type_checker.current_function.name = NameF
    /\ Len(type_checker.errors) = 1
    /\ Mentions(type_checker.errors[1].message,
                <<"a","l","r","e","a","d","y"," ","d","e","f","i","n","e","d">>)

(***************************************************************************)
(* C28: the scoping of the semantic analyzer mirrors that of the type      *)
(* checker: at every Identifier node that both walkers visit, the          *)
(* initializer of a variable declaration included, the name resolves in    *)
(* the scope chain of the semantic analyzer iff it resolves in the scope   *)
(* chain of the type checker.  What each walker found shows in what the    *)
(* visit left: the type checker reports an undefined variable at the       *)
(* identifier, the semantic analyzer records a Reference at it.            *)
(***************************************************************************)
\* the Identifier that the statement just visited made both walkers visit
C28_Identifier ==
    IF walk'.node.kind = "ExpressionStatement" THEN walk'.node.expression
    ELSE walk'.node.initializer

C28_ResolvedInTypeChecker ==
    \A i \in DOMAIN Appended :
       ~(/\ Appended[i].line = C28_Identifier.line
         /\ Appended[i].column = C28_Identifier.column
         /\ Mentions(Appended[i].message,
                     <<"U","n","d","e","f","i","n","e","d">>))

C28_ResolvedInSemanticAnalyzer ==
    /\ Len(semantic_analyzer'.references) = Len(semantic_analyzer.references) + 1
    /\ semantic_analyzer'.references[Len(semantic_analyzer'.references)].location
          = [line |-> C28_Identifier.line, column |-> C28_Identifier.column]

C28_Step ==
    (/\ walk'.event = "visit"
     /\ walk'.count = walk.count + 1
     /\ \/ /\ walk'.node.kind = "ExpressionStatement"
           /\ walk'.node.expression.kind = "Identifier"
        \/ /\ walk'.node.kind = "VariableDeclaration"
           /\ walk'.node.initializer.kind = "Identifier") =>
        (C28_ResolvedInSemanticAnalyzer <=> C28_ResolvedInTypeChecker)

C28_ScopingMirrors == [][C28_Step]_vars

(***************************************************************************)
(* The documents of the editor and its calls.  Texts are what the parser   *)
(* accepts, expression statements over names and literals, and texts it    *)
(* rejects.                                                                *)
(***************************************************************************)
Uris == {"file:///a.aether", "file:///b.aether"}

ServerTexts ==
    <<<<"p","r","i","n","t",";">>,
      <<"x",";","\n","p","r","i","n","t",";">>,
      <<"x">>,
      <<>>,
      <<"p","r","i","n","t",";","p","r","i","n","t",";","x",";">>,
      <<"a","_","1",";">>>>

\* the content_changes of a didChange: one full text, none, or two
ContentChanges ==
    [i \in DOMAIN ServerTexts |-> <<ServerTexts[i]>>]
    \o <<<<>>, <<ServerTexts[1], ServerTexts[2]>>>>

Queries == {<<>>, <<"P","R">>, <<"x">>}

\* a notification has been handled: r is what the handler did, carried the
\* sequence of the texts the notification carried
Notified(method, uri, r, carried) ==
    /\ server' = r.server
    /\ client' = [client EXCEPT
                     !.texts = IF carried = <<>> THEN @
                               ELSE DictPut(@, uri, carried[1]),
                     !.call = Call(method, uri, 0, 0),
                     !.outcome = "notified",
                     !.result = <<>>,
                     !.diagnostics = IF r.published
                                     THEN DictPut(@, uri, r.diagnostics) ELSE @]
    /\ UNCHANGED <<lexVars, parVars, symVars, docVars, walkVars>>

\* a request has been answered
Answered(call, response) ==
    /\ client' = [client EXCEPT !.call = call,
                                !.outcome = response.outcome,
                                !.result = response.result]
    /\ UNCHANGED server
    /\ UNCHANGED <<lexVars, parVars, symVars, docVars, walkVars>>

InitServer ==
    /\ ServerIdle
    /\ LexerIdle
    /\ ParserIdle
    /\ SymbolsIdle
    /\ AnalysisIdle

DidOpen ==
    \E uri \in Uris : \E i \in DOMAIN ServerTexts :
       Notified("didOpen", uri, DidOpenDocument(server, uri, ServerTexts[i]),
                <<ServerTexts[i]>>)

DidChange ==
    \E uri \in Uris : \E i \in DOMAIN ContentChanges :
       Notified("didChange", uri,
                DidChangeDocument(server, uri, ContentChanges[i]),
                ContentChanges[i])

DidSave ==
    \E uri \in Uris :
       Notified("didSave", uri, DidSaveDocument(server, uri), <<>>)

Hover ==
    \E uri \in Uris : \E line \in 0..MaxLine : \E character \in 0..MaxCharacter :
       Answered(Call("hover", uri, line, character),
                OnHover(server, uri, line, character))

GoToDefinition ==
    \E uri \in Uris : \E line \in 0..MaxLine : \E character \in 0..MaxCharacter :
       Answered(Call("definition", uri, line, character),
                OnDefinition(server, uri, line, character))

FindReferences ==
    \E uri \in Uris : \E line \in 0..MaxLine : \E character \in 0..MaxCharacter :
       Answered(Call("references", uri, line, character),
                OnReferences(server, uri, line, character))

DocumentSymbols ==
    \E uri \in Uris :
       Answered(Call("documentSymbol", uri, 0, 0), OnDocumentSymbol(server, uri))

WorkspaceSymbols ==
    \E query \in Queries :
       Answered(Call("workspaceSymbol", "", 0, 0), OnWorkspaceSymbol(server, query))

NextServer ==
    \/ DidOpen
    \/ DidChange
    \/ DidSave
    \/ Hover
    \/ GoToDefinition
    \/ FindReferences
    \/ DocumentSymbols
    \/ WorkspaceSymbols

SpecServer == InitServer /\ [][NextServer]_vars

(***************************************************************************)
(* C23: after any sequence of didOpen, didChange and didSave notifications *)
(* for any URIs, the four dicts of the server have the same keys, and for  *)
(* every URI the stored parser, type checker and semantic analyzer are the *)
(* results of one analysis of the text that the latest didOpen or          *)
(* didChange carried for the URI, which is document_cache[uri]; a hover,   *)
(* definition, references or symbol request is answered from these and     *)
(* from nothing older.                                                     *)
(***************************************************************************)
\* the server that has analysed the latest text of each URI and nothing else
C23_Latest ==
    [document_cache |-> client.texts,
     parsers |-> [u \in DOMAIN client.texts |-> Parse(client.texts[u]).parser],
     type_checkers |->
         [u \in DOMAIN client.texts |->
             TypeChecker_check(NewTypeChecker,
                               Program(Parse(client.texts[u]).statements))],
     semantic_analyzers |->
         [u \in DOMAIN client.texts |->
             SemanticAnalyzer_analyze(NewSemanticAnalyzer,
                                      Program(Parse(client.texts[u]).statements))]]

C23_Answer ==
    LET call == client.call
    IN  CASE call.method = "hover" ->
                OnHover(C23_Latest, call.uri, call.line, call.character)
          [] call.method = "definition" ->
                OnDefinition(C23_Latest, call.uri, call.line, call.character)
          [] call.method = "references" ->
                OnReferences(C23_Latest, call.uri, call.line, call.character)
          [] call.method = "documentSymbol" ->
                OnDocumentSymbol(C23_Latest, call.uri)
          [] OTHER -> Response(client.outcome, client.result)

C27_PositionRequest ==
    /\ client.call.method \in {"hover", "definition", "references"}
    /\ client.call.uri \in DOMAIN server.document_cache

\* the line under the cursor, empty past the last line
C27_Line ==
    LET lines == Split(server.document_cache[client.call.uri], <<"\n">>)
    IN  IF client.call.line + 1 <= Len(lines) THEN lines[client.call.line + 1]
        ELSE <<>>

C27_WordIsEmpty ==
    LET c == client.call.character
    IN  /\ ~(c >= 1 /\ c <= Len(C27_Line) /\ IsWordChar(C27_Line[c]))
        /\ ~(c + 1 <= Len(C27_Line) /\ IsWordChar(C27_Line[c + 1]))

C27_NoResult ==
    IF client.call.method = "references"
    THEN client.outcome = "list" /\ client.result = <<>>
    ELSE client.outcome = "None"

C27_EveryPositionAnswered ==
    C27_PositionRequest =>
        /\ client.outcome # "IndexError"
        /\ C27_WordIsEmpty => C27_NoResult

(***************************************************************************)
(* C25: every LSP Position the server produces for a definition, a         *)
(* reference or a document or workspace symbol is the 0-based conversion   *)
(* (line - 1, column - 1) of a 1-based core location, so its line and its  *)
(* character are at least 0, for every recorded Definition, the built-in   *)
(* print recorded at (0,0) included.                                       *)
(***************************************************************************)
C25_Ranges ==
    IF client.call.method \in {"definition", "references"}
    THEN [i \in DOMAIN client.result |-> client.result[i].range]
    ELSE IF client.call.method \in {"documentSymbol", "workspaceSymbol"}
    THEN [i \in DOMAIN client.result |-> client.result[i].location.range]
    ELSE <<>>

C25_PositionsNotNegative ==
    \A i \in DOMAIN C25_Ranges :
       /\ C25_Ranges[i].start.line >= 0
       /\ C25_Ranges[i].start.character >= 0
       /\ C25_Ranges[i].end.line >= 0
       /\ C25_Ranges[i].end.character >= 0

(***************************************************************************)
(* C26: for every error string the semantic analyzer emits (undefined      *)
(* identifier, function already defined, variable already defined) the     *)
(* server reads the line L and the column C back from the trailing         *)
(* " at L:C" and publishes one Warning diagnostic with the source          *)
(* aetherscript-semantic-analyzer, the start position (L-1, C-1) and the   *)
(* error text without the suffix as its message; every type error is       *)
(* published as one Error diagnostic with the source of the type checker.  *)
(***************************************************************************)
C26_Messages ==
    UNION {{<<"U","n","d","e","f","i","n","e","d"," ","i","d","e","n","t","i","f","i","e","r"," ","'">> \o n \o <<"'">>,
            <<"F","u","n","c","t","i","o","n"," ","'">> \o n \o <<"'"," ","i","s"," ","a","l","r","e","a","d","y"," ","d","e","f","i","n","e","d">>,
            <<"V","a","r","i","a","b","l","e"," ","'">> \o n \o <<"'"," ","i","s"," ","a","l","r","e","a","d","y"," ","d","e","f","i","n","e","d">>}
           : n \in WalkNames}

\* the error is the message followed by " at L:C" and d is its diagnostic
C26_Published(error, d) ==
    \E message \in C26_Messages : \E L \in 1..Len(error) : \E C \in 1..Len(error) :
       /\ error = message \o <<" ","a","t"," ">> \o IntToChars(L) \o <<":">>
                  \o IntToChars(C)
       /\ d.message = message
       /\ d.range.start = [line |-> L - 1, character |-> C - 1]
       /\ d.severity = "Warning"
       /\ d.source = <<"a","e","t","h","e","r","s","c","r","i","p","t","-","s","e","m","a","n","t","i","c","-","a","n","a","l","y","z","e","r">>

C26_DiagnosticsOfErrors ==
    walk.pc = "published" =>
        LET diagnostics == client.diagnostics[WalkUri]
            type_errors == type_checker.errors
            semantic_errors == semantic_analyzer.errors
        IN  /\ Len(diagnostics) = Len(type_errors) + Len(semantic_errors)
            /\ \A i \in DOMAIN type_errors :
                  /\ diagnostics[i].severity = "Error"
                  /\ diagnostics[i].source = <<"a","e","t","h","e","r","s","c","r","i","p","t","-","t","y","p","e","-","c","h","e","c","k","e","r">>
                  /\ diagnostics[i].message = type_errors[i].message
                  /\ diagnostics[i].range.start =
                        [line |-> type_errors[i].line - 1,
                         character |-> type_errors[i].column - 1]
            /\ \A j \in DOMAIN semantic_errors :
                  C26_Published(semantic_errors[j],
                                diagnostics[Len(type_errors) + j])

\* the same for the documents of the server, whose parse errors come first:
\* one Error diagnostic of the parser for each, at the token of the error
C26_ParseErrorsPublished ==
    \A u \in DOMAIN client.diagnostics :
       LET diagnostics == client.diagnostics[u]
           parse_errors == server.parsers[u].errors
           type_errors == server.type_checkers[u].errors
           semantic_errors == server.semantic_analyzers[u].errors
       IN  /\ Len(diagnostics)
                = Len(parse_errors) + Len(type_errors) + Len(semantic_errors)
           /\ \A i \in DOMAIN parse_errors :
                 /\ diagnostics[i].severity = "Error"
                 /\ diagnostics[i].source = <<"a","e","t","h","e","r","s","c","r","i","p","t","-","p","a","r","s","e","r">>
                 /\ diagnostics[i].message = parse_errors[i].message
                 /\ diagnostics[i].range.start =
                       [line |-> parse_errors[i].token.line - 1,
                        character |-> parse_errors[i].token.column - 1]
           /\ \A i \in DOMAIN type_errors :
                 /\ diagnostics[Len(parse_errors) + i].severity = "Error"
                 /\ diagnostics[Len(parse_errors) + i].message
                       = type_errors[i].message
           /\ \A j \in DOMAIN semantic_errors :
                 \E L \in 1..Len(semantic_errors[j]) :
                    \E C \in 1..Len(semantic_errors[j]) :
                       LET d == diagnostics[Len(parse_errors) + Len(type_errors) + j]
                       IN  /\ semantic_errors[j] =
                                 d.message \o <<" ","a","t"," ">> \o IntToChars(L)
                                 \o <<":">> \o IntToChars(C)
                           /\ d.range.start = [line |-> L - 1, character |-> C - 1]
                           /\ d.severity = "Warning"

\* x = 's'; var x = 's'; function x() -> Void { } has been analysed: the
\* undefined x of line 1, column 11 and the function rejected on line 3 are
\* published as the last two diagnostics
C26_Witness ==
    /\ walk.pc = "published"
    /\ Len(semantic_analyzer.errors) = 2
    /\ Mentions(semantic_analyzer.errors[1], <<"'","x","'"," ","a","t"," ","1",":","1","1">>)
    /\ Mentions(semantic_analyzer.errors[2], <<"F","u","n","c","t","i","o","n"," ","'","x","'">>)
    /\ LET diagnostics == client.diagnostics[WalkUri]
       IN  /\ Len(diagnostics) >= 2
           /\ diagnostics[Len(diagnostics) - 1].range.start
                 = [line |-> 0, character |-> 10]
           /\ diagnostics[Len(diagnostics)].range.start
                 = [line |-> 2, character |-> 0]
           /\ diagnostics[Len(diagnostics)].severity = "Warning"

(***************************************************************************)
(* C22: find_hover_info(name, location) returns None iff no Definition is  *)
(* recorded for name; otherwise, with d the first Definition recorded for  *)
(* name, it returns "<kind> <name>: <type>", followed by a newline and     *)
(* d.detail when d.detail is not empty.  On a new analyzer the hover on    *)
(* print is "function print: Void" and, on the next line,                  *)
(* "Built-in function: print(value: Any) -> Void".                         *)
(***************************************************************************)
C22_PrintHover ==
    <<"f","u","n","c","t","i","o","n"," ","p","r","i","n","t",":"," ","V","o","i","d","\n","B","u","i","l","t","-","i","n"," ","f","u","n","c","t","i","o","n",":"," ","p","r","i","n","t","(","v","a","l","u","e",":"," ","A","n","y",")"," ","-",">"," ","V","o","i","d">>

C22_Recorded(name) ==
    /\ name \in DOMAIN semantic_analyzer.definitions
    /\ semantic_analyzer.definitions[name] # <<>>

C22_Expected(d) ==
    LET head == d.kind \o <<" ">> \o d.name \o <<":", " ">> \o d.type_name
    IN  IF Len(d.detail) = 0 THEN head ELSE head \o <<"\n">> \o d.detail

C22_HoverInfo ==
    walk.pc = "hovered" =>
        LET name == walk.node.name
        IN  /\ client.outcome = "None" <=> ~C22_Recorded(name)
            /\ C22_Recorded(name) =>
                  /\ client.outcome = "str"
                  /\ client.result
                        = C22_Expected(semantic_analyzer.definitions[name][1])
            /\ (name = PrintName /\ Len(semantic_analyzer.definitions[name]) = 1)
                  => client.result = C22_PrintHover

\* x was declared as a variable, which has no detail, before it was declared
\* as a function: the hover is that of the variable, on one line
C22_Witness ==
    /\ walk.pc = "hovered"
    /\ walk.node.name = NameX
    /\ C22_Recorded(NameX)
    /\ Len(semantic_analyzer.definitions[NameX]) = 2
    /\ semantic_analyzer.definitions[NameX][1].detail = <<>>
    /\ semantic_analyzer.definitions[NameX][2].detail # <<>>
    /\ client.outcome = "str"
    /\ \A i \in DOMAIN client.result : client.result[i] # "\n"

(***************************************************************************)
(* C24: the type checker and the semantic analyzer are deterministic and   *)
(* start every run afresh: two runs on the same Program give the same      *)
(* errors, definitions and references, since each run starts from a new    *)
(* symbol table that holds only the built-in print, and nothing an earlier *)
(* run left is seen by a later one.  A run is one analysis of a document:  *)
(* a didSave runs both walkers again on the text of the document, and two  *)
(* documents with the same text are two runs on the same Program.          *)
(***************************************************************************)
C24_Results(srv, u) ==
    [type_errors |-> srv.type_checkers[u].errors,
     definitions |-> srv.semantic_analyzers[u].definitions,
     references |-> srv.semantic_analyzers[u].references,
     semantic_errors |-> srv.semantic_analyzers[u].errors,
     diagnostics |-> client.diagnostics[u]]

\* whatever was analysed before under either URI
C24_SameTextSameResults ==
    \A u \in DOMAIN server.document_cache : \A v \in DOMAIN server.document_cache :
       server.document_cache[u] = server.document_cache[v]
       => C24_Results(server, u) = C24_Results(server, v)

\* the run a didSave starts gives what the run before it gave
C24_SaveStep ==
    (/\ client'.call.method = "didSave"
     /\ client'.call.uri \in DOMAIN server.document_cache) =>
        LET u == client'.call.uri
        IN  /\ server'.type_checkers[u].errors = server.type_checkers[u].errors
            /\ server'.semantic_analyzers[u].definitions
                  = server.semantic_analyzers[u].definitions
            /\ server'.semantic_analyzers[u].references
                  = server.semantic_analyzers[u].references
            /\ server'.semantic_analyzers[u].errors
                  = server.semantic_analyzers[u].errors
            /\ client'.diagnostics[u] = client.diagnostics[u]
            /\ DOMAIN server'.semantic_analyzers[u].definitions = {PrintName}
            /\ DOMAIN server'.type_checkers[u].heap[1].symbols
                  \subseteq {PrintName}

====
